---- MODULE Spec2Model ----
(***************************************************************************)
(* Semantic analysis of clap_derive: construction of one Item from the     *)
(* directive list of one declaration site (clap_derive/src/item.rs).       *)
(*                                                                         *)
(* An Item is built by Item::new, the two loops of Item::push_attrs (the   *)
(* role scan and the full interpretation), Item::push_doc_comment and the  *)
(* checks that end each of the from_* constructors.  Every loop iteration  *)
(* is one step of the model; abort!() ends the construction.               *)
(***************************************************************************)
EXTENDS Integers, Sequences, FiniteSets, TLC

VARIABLES
    site,       \* the declaration site: its kind, identifier, type, fields, doc lines, casing
    attrs,      \* ClapAttr::parse_all(attrs): the ordered directive list
    pc,         \* position in the constructor
    idx,        \* index of the directive the current loop is at
    item,       \* the Item under construction (`res` / `self`)
    err,        \* the diagnostic of abort!(), NoErr while none was raised
    new_kind    \* argument of a direct call of Item::set_kind (SpecSetKind only)

vars == <<site, attrs, pc, idx, item, err, new_kind>>

\* ---------------------------------------------------------------- bounds

\* Longest directive list of a declaration site.
MaxAttrs == 2

\* The longest authors string process_author_str is applied to.
MaxAuthorLen == 4

\* ------------------------------------------------------------ vocabulary

\* Option::None, for attr.value, for the override slots and for Kind payloads.
None == [form |-> "none", text |-> <<>>]

\* proc_macro2 source text is kept as a sequence of characters/tokens.
Value(form, text) == [form |-> form, text |-> text]

\* AttrKind (crate::attr): the namespace a directive is declared in.
AttrKinds == {"Arg", "Command", "Value", "Clap", "StructOpt"}

\* Ty (crate::utils): the declared shape of a type.
Tys == {"Vec", "Option", "OptionOption", "OptionVec", "Other"}

\* enum Kind: the tags of the Role.
KindTags == {"Arg", "Command", "Value", "FromGlobal", "Subcommand", "Flatten",
             "Skip", "ExternalSubcommand"}

\* Kind values: Arg/Command/Value/FromGlobal/Subcommand carry a Ty, Skip carries
\* the optional expression and the AttrKind, Flatten/ExternalSubcommand nothing.
KindTy(tag, ty) == [tag |-> tag, ty |-> ty, expr |-> None, attr_kind |-> "-"]
KindSkip(expr, ak) == [tag |-> "Skip", ty |-> "-", expr |-> expr, attr_kind |-> ak]
KindUnit(tag) == [tag |-> tag, ty |-> "-", expr |-> None, attr_kind |-> "-"]

NoKind == KindUnit("-")

\* A diagnostic: what abort!() reported, for which directive (0: for the site), with
\* the two names of its message, and the position of the constructor that raised it.
NoErr == [type |-> "none", at |-> 0, a |-> "", b |-> "", phase |-> ""]
Err(type, at, a, b) == [type |-> type, at |-> at, a |-> a, b |-> b, phase |-> ""]

\* The result of a step of the analysis: the Item as the step left it, and the
\* diagnostic when the step ended in abort!().
Ok(it) == [item |-> it, err |-> NoErr]
Abort(it, e) == [item |-> it, err |-> e]

\* ------------------------------------------------------------------ Kind

\* Kind::name
KindName(k) ==
    CASE k.tag = "Arg" -> "arg"
      [] k.tag = "Command" -> "command"
      [] k.tag = "Value" -> "value"
      [] k.tag = "FromGlobal" -> "from_global"
      [] k.tag = "Subcommand" -> "subcommand"
      [] k.tag = "Flatten" -> "flatten"
      [] k.tag = "Skip" -> "skip"
      [] k.tag = "ExternalSubcommand" -> "external_subcommand"

\* attr_kind with Skip answering Arg instead of the AttrKind it captured.
AttrKindOf_Mutant(k) ==
    CASE k.tag \in {"Arg", "FromGlobal", "Skip"} -> "Arg"
      [] k.tag \in {"Command", "Subcommand", "Flatten", "ExternalSubcommand"} -> "Command"
      [] k.tag = "Value" -> "Value"

\* Kind::attr_kind
AttrKindOf(k) ==
    CASE k.tag = "Arg" -> "Arg"
      [] k.tag = "Command" -> "Command"
      [] k.tag = "Value" -> "Value"
      [] k.tag = "FromGlobal" -> "Arg"
      [] k.tag = "Subcommand" -> "Command"
      [] k.tag = "Flatten" -> "Command"
      [] k.tag = "Skip" -> k.attr_kind
      [] k.tag = "ExternalSubcommand" -> "Command"

\* set_kind with the (Command, ExternalSubcommand) pair missing from its first arm and
\* (Value, Flatten) added to it.
SetKindAllowed_Mutant(old, new) ==
    \/ old = "Arg" /\ new \in {"FromGlobal", "Subcommand", "Flatten", "Skip"}
    \/ old = "Command" /\ new \in {"Subcommand", "Flatten", "Skip"}
    \/ old = "Value" /\ new \in {"Skip", "Flatten"}

\* set_kind letting a Role be established again over itself.
SetKindAllowed_MutantRepeat(old, new) ==
    \/ old = "Arg" /\ new \in {"FromGlobal", "Subcommand", "Flatten", "Skip"}
    \/ old = "Command" /\ new \in {"Subcommand", "Flatten", "Skip", "ExternalSubcommand"}
    \/ old = "Value" /\ new = "Skip"
    \/ old = new /\ old \notin {"Arg", "Command", "Value"}

\* The match of Item::set_kind: the (old, new) pairs of its first arm.
SetKindAllowed(old, new) ==
    \/ old = "Arg" /\ new \in {"FromGlobal", "Subcommand", "Flatten", "Skip"}
    \/ old = "Command" /\ new \in {"Subcommand", "Flatten", "Skip", "ExternalSubcommand"}
    \/ old = "Value" /\ new = "Skip"

\* Item::set_kind(kind), called for directive number `at`.
SetKind(it, kind, at) ==
    IF SetKindAllowed(it.kind.tag, kind.tag)
    THEN Ok([it EXCEPT !.kind = kind])
    ELSE Abort(it, Err("conflict", at, KindName(kind), KindName(it.kind)))

\* ---------------------------------------------------------- CasingStyle

\* enum CasingStyle
CasingStyles == {"Camel", "Kebab", "Pascal", "ScreamingSnake", "Snake", "Lower",
                 "Upper", "Verbatim"}

\* DEFAULT_CASING
DEFAULT_CASING == "Kebab"

\* DEFAULT_ENV_CASING
DEFAULT_ENV_CASING == "ScreamingSnake"

LowerChars == <<"a","b","c","d","e","f","g","h","i","j","k","l","m","n","o","p","q","r",
                "s","t","u","v","w","x","y","z">>
UpperChars == <<"A","B","C","D","E","F","G","H","I","J","K","L","M","N","O","P","Q","R",
                "S","T","U","V","W","X","Y","Z">>

IsLower(c) == \E k \in DOMAIN LowerChars : LowerChars[k] = c
IsUpper(c) == \E k \in DOMAIN UpperChars : UpperChars[k] = c
IsAlnum(c) == IsLower(c) \/ IsUpper(c) \/ c \in {"0","1","2","3","4","5","6","7","8","9"}

\* char::to_lowercase / char::to_uppercase on the ASCII letters
ToLowerChar(c) ==
    IF IsUpper(c) THEN LowerChars[CHOOSE k \in DOMAIN UpperChars : UpperChars[k] = c] ELSE c
ToUpperChar(c) ==
    IF IsLower(c) THEN UpperChars[CHOOSE k \in DOMAIN LowerChars : LowerChars[k] = c] ELSE c

\* str::to_lowercase / str::to_uppercase
ToLowercase(s) == [k \in DOMAIN s |-> ToLowerChar(s[k])]
ToUppercase(s) == [k \in DOMAIN s |-> ToUpperChar(s[k])]

\* heck's word segmentation: a word ends at every character that is not
\* alphanumeric, between a lowercase and an uppercase letter, and before the last
\* capital of a run of capitals that a lowercase letter follows.
RECURSIVE HeckWords(_, _, _, _)
HeckWords(s, k, cur, acc) ==
    LET flushed == IF cur = <<>> THEN acc ELSE Append(acc, cur) IN
    IF k > Len(s) THEN flushed
    ELSE LET c == s[k] IN
         IF ~IsAlnum(c) THEN HeckWords(s, k + 1, <<>>, flushed)
         ELSE IF /\ cur # <<>>
                 /\ IsUpper(c)
                 /\ \/ IsLower(cur[Len(cur)])
                    \/ IsUpper(cur[Len(cur)]) /\ k < Len(s) /\ IsLower(s[k + 1])
              THEN HeckWords(s, k + 1, <<c>>, flushed)
              ELSE HeckWords(s, k + 1, Append(cur, c), acc)

Words(s) == HeckWords(s, 1, <<>>, <<>>)

\* A word with its first letter in capitals and the others in lowercase.
Capitalize(w) == [k \in DOMAIN w |-> IF k = 1 THEN ToUpperChar(w[k]) ELSE ToLowerChar(w[k])]

RECURSIVE Join(_, _)
Join(ws, sep) ==
    IF ws = <<>> THEN <<>>
    ELSE IF Len(ws) = 1 THEN ws[1]
    ELSE ws[1] \o sep \o Join(Tail(ws), sep)

\* heck::ToSnakeCase, ToKebabCase, ToShoutySnakeCase, ToUpperCamelCase, ToLowerCamelCase
ToSnakeCase(s) == Join([k \in DOMAIN Words(s) |-> ToLowercase(Words(s)[k])], <<"_">>)
ToKebabCase(s) == Join([k \in DOMAIN Words(s) |-> ToLowercase(Words(s)[k])], <<"-">>)
ToShoutySnakeCase(s) == Join([k \in DOMAIN Words(s) |-> ToUppercase(Words(s)[k])], <<"_">>)
ToUpperCamelCase(s) == Join([k \in DOMAIN Words(s) |-> Capitalize(Words(s)[k])], <<>>)
ToLowerCamelCase(s) ==
    Join([k \in DOMAIN Words(s) |->
            IF k = 1 THEN ToLowercase(Words(s)[k]) ELSE Capitalize(Words(s)[k])], <<>>)

\* str::replace('_', "")
RECURSIVE StripUnderscores(_)
StripUnderscores(s) ==
    IF s = <<>> THEN <<>>
    ELSE IF Head(s) = "_" THEN StripUnderscores(Tail(s))
    ELSE <<Head(s)>> \o StripUnderscores(Tail(s))

\* The casing match of Name::translate
TranslateStr(s, style) ==
    CASE style = "Pascal" -> ToUpperCamelCase(s)
      [] style = "Kebab" -> ToKebabCase(s)
      [] style = "Camel" -> ToLowerCamelCase(s)
      [] style = "ScreamingSnake" -> ToShoutySnakeCase(s)
      [] style = "Snake" -> ToSnakeCase(s)
      [] style = "Lower" -> StripUnderscores(ToSnakeCase(s))
      [] style = "Upper" -> StripUnderscores(ToShoutySnakeCase(s))
      [] style = "Verbatim" -> s

\* translate_char taking the Lower character from the identifier as written.
TranslateCharStr_Mutant(s, style) ==
    CASE style = "Pascal" -> ToUpperCamelCase(s)
      [] style = "Kebab" -> ToKebabCase(s)
      [] style = "Camel" -> ToLowerCamelCase(s)
      [] style = "ScreamingSnake" -> ToShoutySnakeCase(s)
      [] style = "Snake" -> ToSnakeCase(s)
      [] style = "Lower" -> s
      [] style = "Upper" -> ToShoutySnakeCase(s)
      [] style = "Verbatim" -> s

\* The casing match of Name::translate_char
TranslateCharStr(s, style) ==
    CASE style = "Pascal" -> ToUpperCamelCase(s)
      [] style = "Kebab" -> ToKebabCase(s)
      [] style = "Camel" -> ToLowerCamelCase(s)
      [] style = "ScreamingSnake" -> ToShoutySnakeCase(s)
      [] style = "Snake" -> ToSnakeCase(s)
      [] style = "Lower" -> ToSnakeCase(s)
      [] style = "Upper" -> ToShoutySnakeCase(s)
      [] style = "Verbatim" -> s

\* enum Name
Derived(ident) == [tag |-> "Derived", v |-> ident]
Assigned(tokens) == [tag |-> "Assigned", v |-> tokens]

\* Name::raw
Raw(name) ==
    IF name.tag = "Assigned" THEN name.v ELSE Value("str", name.v)

\* translate casing every derived name under the default argument-casing style.
Translate_Mutant(name, style) ==
    IF name.tag = "Assigned" THEN name.v ELSE Value("str", TranslateStr(name.v, DEFAULT_CASING))

\* translate casing the text of an assigned name like an identifier.
Translate_MutantAssigned(name, style) ==
    IF name.tag = "Assigned"
    THEN [name.v EXCEPT !.text = TranslateStr(@, style)]
    ELSE Value("str", TranslateStr(name.v, style))

\* Name::translate
Translate(name, style) ==
    IF name.tag = "Assigned" THEN name.v ELSE Value("str", TranslateStr(name.v, style))

\* Name::translate_char
TranslateChar(name, style) ==
    IF name.tag = "Assigned"
    THEN Value("chars_next_unwrap", name.v.text)
    ELSE Value("char", <<TranslateCharStr(name.v, style)[1]>>)

\* The names CasingStyle::from_lit accepts, after normalisation.
CasingNames ==
    << <<"Camel", <<"c","a","m","e","l">> >>,
       <<"Kebab", <<"k","e","b","a","b">> >>,
       <<"Pascal", <<"p","a","s","c","a","l">> >>,
       <<"ScreamingSnake", <<"s","c","r","e","a","m","i","n","g","s","n","a","k","e">> >>,
       <<"Snake", <<"s","n","a","k","e">> >>,
       <<"Lower", <<"l","o","w","e","r">> >>,
       <<"Upper", <<"u","p","p","e","r">> >>,
       <<"Verbatim", <<"v","e","r","b","a","t","i","m">> >> >>

\* CasingStyle::from_lit: the style, or "unsupported" where the code aborts.
FromLit(text) ==
    LET normalized == ToLowercase(ToUpperCamelCase(text))
        hit == {k \in DOMAIN CasingNames :
                   \/ normalized = CasingNames[k][2]
                   \/ normalized = CasingNames[k][2] \o <<"c","a","s","e">>}
    IN IF hit = {} THEN "unsupported" ELSE CasingNames[CHOOSE k \in hit : TRUE][1]

\* ---------------------------------------------------------------- Method

\* Method::new
Method(name, args) == [name |-> name, args |-> args]

\* process_author_str decrementing on every '>', also at depth zero.
RECURSIVE ProcessAuthorFrom_Mutant(_, _, _)
ProcessAuthorFrom_Mutant(author, k, depth) ==
    IF k > Len(author) THEN <<>>
    ELSE LET ch == author[k] IN
         IF ch = ">" THEN <<ch>> \o ProcessAuthorFrom_Mutant(author, k + 1, depth - 1)
         ELSE IF ch = "<" THEN <<ch>> \o ProcessAuthorFrom_Mutant(author, k + 1, depth + 1)
         ELSE IF depth = 0 /\ ch = ":"
              THEN <<",", " ">> \o ProcessAuthorFrom_Mutant(author, k + 1, depth)
         ELSE <<ch>> \o ProcessAuthorFrom_Mutant(author, k + 1, depth)

\* process_author_str: `depth` is inside_angle_braces.
RECURSIVE ProcessAuthorFrom(_, _, _)
ProcessAuthorFrom(author, k, depth) ==
    IF k > Len(author) THEN <<>>
    ELSE LET ch == author[k] IN
         IF depth > 0 /\ ch = ">" THEN <<ch>> \o ProcessAuthorFrom(author, k + 1, depth - 1)
         ELSE IF ch = "<" THEN <<ch>> \o ProcessAuthorFrom(author, k + 1, depth + 1)
         ELSE IF depth = 0 /\ ch = ":" THEN <<",", " ">> \o ProcessAuthorFrom(author, k + 1, depth)
         ELSE <<ch>> \o ProcessAuthorFrom(author, k + 1, depth)

process_author_str(author) == ProcessAuthorFrom(author, 1, 0)

\* env::var: a variable of the build environment is unset, or holds a string.
Unset == <<"(unset)">>

\* from_env making a Method of a variable that is set but empty.
FromEnv_MutantEmpty(ident, val) ==
    IF val = Unset THEN [abort |-> TRUE, some |-> FALSE, method |-> Method(ident, None)]
    ELSE [abort |-> FALSE, some |-> TRUE,
          method |-> Method(ident, Value("str", IF ident = "author"
                                                THEN process_author_str(val) ELSE val))]

\* from_env aborting on a variable that is set but empty.
FromEnv_Mutant(ident, val) ==
    IF val = Unset \/ val = <<>>
    THEN [abort |-> TRUE, some |-> FALSE, method |-> Method(ident, None)]
    ELSE [abort |-> FALSE, some |-> TRUE,
          method |-> Method(ident, Value("str", IF ident = "author"
                                                THEN process_author_str(val) ELSE val))]

\* Method::from_env: [abort, some, method].
FromEnv(ident, val) ==
    IF val = Unset THEN [abort |-> TRUE, some |-> FALSE, method |-> Method(ident, None)]
    ELSE IF val = <<>> THEN [abort |-> FALSE, some |-> FALSE, method |-> Method(ident, None)]
    ELSE [abort |-> FALSE, some |-> TRUE,
          method |-> Method(ident, Value("str", IF ident = "author"
                                                THEN process_author_str(val) ELSE val))]

\* ------------------------------------------------------------------ Item

\* enum ValueParser / enum Action in an Option: None, Explicit(Method) with the
\* Method's arguments, Implicit(Ident) with the directive number of the identifier.
NoOverride == [tag |-> "None", arg |-> None, at |-> 0]
Explicit(arg) == [tag |-> "Explicit", arg |-> arg, at |-> 0]
Implicit(at) == [tag |-> "Implicit", arg |-> None, at |-> at]

\* Item::new
New(name, ty, casing, env_casing, kind) ==
    [name |-> name,
     ty |-> ty,
     casing |-> casing,
     env_casing |-> env_casing,
     doc_comment |-> <<>>,
     methods |-> <<>>,
     deprecations |-> <<>>,
     value_parser |-> NoOverride,
     action |-> NoOverride,
     verbatim_doc_comment |-> FALSE,
     next_display_order |-> None,
     next_help_heading |-> None,
     is_enum |-> FALSE,
     is_positional |-> TRUE,
     kind |-> kind]


\* push_method clearing is_positional for short only.
PushMethod_Mutant(it, name, arg) ==
    IF name = "name" \/ name = "id" THEN [it EXCEPT !.name = Assigned(arg)]
    ELSE IF name = "value_parser" THEN [it EXCEPT !.value_parser = Explicit(arg)]
    ELSE IF name = "action" THEN [it EXCEPT !.action = Explicit(arg)]
    ELSE [it EXCEPT !.is_positional = IF name = "short" THEN FALSE ELSE @,
                    !.methods = Append(@, Method(name, arg))]

\* push_method appending every directive to the Method list, whatever its name.
PushMethod_MutantAppend(it, name, arg) ==
    [it EXCEPT !.methods = Append(@, Method(name, arg))]

\* push_method storing an override and appending it to the Method list as well.
PushMethod_MutantOverride(it, name, arg) ==
    IF name = "name" \/ name = "id" THEN [it EXCEPT !.name = Assigned(arg)]
    ELSE IF name = "value_parser"
         THEN [it EXCEPT !.value_parser = Explicit(arg), !.methods = Append(@, Method(name, arg))]
    ELSE IF name = "action"
         THEN [it EXCEPT !.action = Explicit(arg), !.methods = Append(@, Method(name, arg))]
    ELSE [it EXCEPT !.is_positional = IF name = "short" \/ name = "long" THEN FALSE ELSE @,
                    !.methods = Append(@, Method(name, arg))]

\* push_method putting the Method at the front of the list.
PushMethod_MutantPrepend(it, name, arg) ==
    IF name = "name" \/ name = "id" THEN [it EXCEPT !.name = Assigned(arg)]
    ELSE IF name = "value_parser" THEN [it EXCEPT !.value_parser = Explicit(arg)]
    ELSE IF name = "action" THEN [it EXCEPT !.action = Explicit(arg)]
    ELSE [it EXCEPT !.is_positional = IF name = "short" \/ name = "long" THEN FALSE ELSE @,
                    !.methods = <<Method(name, arg)>> \o @]

\* push_method keeping an override that is already registered.
PushMethod_MutantFirst(it, name, arg) ==
    IF name = "name" \/ name = "id" THEN [it EXCEPT !.name = Assigned(arg)]
    ELSE IF name = "value_parser"
         THEN IF it.value_parser.tag = "Explicit" THEN it
              ELSE [it EXCEPT !.value_parser = Explicit(arg)]
    ELSE IF name = "action"
         THEN IF it.action.tag = "Explicit" THEN it ELSE [it EXCEPT !.action = Explicit(arg)]
    ELSE [it EXCEPT !.is_positional = IF name = "short" \/ name = "long" THEN FALSE ELSE @,
                    !.methods = Append(@, Method(name, arg))]

\* push_method handing an assigned name to the Methods already registered.
PushMethod_MutantRename(it, name, arg) ==
    IF name = "name" \/ name = "id"
    THEN [it EXCEPT !.name = Assigned(arg),
                    !.methods = [k \in DOMAIN @ |-> [@[k] EXCEPT !.args = arg]]]
    ELSE IF name = "value_parser" THEN [it EXCEPT !.value_parser = Explicit(arg)]
    ELSE IF name = "action" THEN [it EXCEPT !.action = Explicit(arg)]
    ELSE [it EXCEPT !.is_positional = IF name = "short" \/ name = "long" THEN FALSE ELSE @,
                    !.methods = Append(@, Method(name, arg))]

\* Item::push_method
PushMethod(it, name, arg) ==
    IF name = "name" \/ name = "id" THEN [it EXCEPT !.name = Assigned(arg)]
    ELSE IF name = "value_parser" THEN [it EXCEPT !.value_parser = Explicit(arg)]
    ELSE IF name = "action" THEN [it EXCEPT !.action = Explicit(arg)]
    ELSE [it EXCEPT !.is_positional = IF name = "short" \/ name = "long" THEN FALSE ELSE @,
                    !.methods = Append(@, Method(name, arg))]

\* Item::find_default_method
FindDefaultMethod(it) ==
    {k \in DOMAIN it.methods : it.methods[k].name \in {"default_value", "default_value_os"}}

\* has_explicit_methods letting long pass as well.
HasExplicitMethods_Mutant(it) ==
    \E k \in DOMAIN it.methods : it.methods[k].name \notin {"help", "long_help", "long"}

\* Item::has_explicit_methods
HasExplicitMethods(it) ==
    \E k \in DOMAIN it.methods : it.methods[k].name # "help" /\ it.methods[k].name # "long_help"

\* Deprecation::attribute
DeprecationAttribute(old, new, at) == [id |-> "old_attribute", at |-> at, old |-> old, new |-> new]

\* The Deprecation literals of the bare value_parser / action arms.
Deprecation(id, at) == [id |-> id, at |-> at, old |-> "", new |-> ""]

\* Option::as_ref().into_iter() on a slot: the Methods it yields.
SlotMethods(slot) == IF slot = None THEN <<>> ELSE <<slot>>

\* Item::next_display_order
NextDisplayOrder(it) == SlotMethods(it.next_display_order)

\* Item::next_help_heading
NextHelpHeading(it) == SlotMethods(it.next_help_heading)

\* Item::initial_top_level_methods
InitialTopLevelMethods(it) ==
    SlotMethods(it.next_display_order) \o SlotMethods(it.next_help_heading)

\* final_top_level_methods emitting the two slots as well.
FinalTopLevelMethods_Mutant(it) ==
    InitialTopLevelMethods(it) \o it.doc_comment \o it.methods

\* Item::final_top_level_methods
FinalTopLevelMethods(it) == it.doc_comment \o it.methods

\* field_methods keeping the doc comment whole, whatever supports_long_help is.
FieldMethods_Mutant(it, supports_long_help) == it.doc_comment \o it.methods

\* Item::field_methods
FieldMethods(it, supports_long_help) ==
    IF supports_long_help
    THEN it.doc_comment \o it.methods
    ELSE LET NotLongHelp(mth) == mth.name # "long_help"
         IN SelectSeq(it.doc_comment, NotLongHelp) \o it.methods

\* Item::id
Id(it) == Raw(it.name)

\* Item::cased_name
CasedName(it) == Translate(it.name, it.casing)

\* Item::value_name
ValueName(it) == Translate(it.name, "ScreamingSnake")

\* ------------------------------------------------------------- ClapAttr

\* The directive names with a MagicAttrName (crate::attr); every other name has none.
MagicNames == {"short", "long", "value_parser", "action", "env", "flatten", "value_enum",
               "from_global", "subcommand", "verbatim_doc_comment", "external_subcommand",
               "about", "author", "version", "rename_all_env", "rename_all", "skip",
               "default_value_t", "default_values_t", "default_value_os_t",
               "default_values_os_t", "next_display_order", "next_help_heading"}

\* attr.magic
Magic(attr) == IF attr.name \in MagicNames THEN attr.name ELSE "None"

\* A ClapAttr: its name, its AttrKind and its value (None, or AttrValue::LitStr,
\* AttrValue::Expr, AttrValue::Call).
Attr(name, kind, value) == [name |-> name, kind |-> kind, value |-> value]

IsCall(attr) == attr.value.form = "call"

\* attr.value_or_abort() / attr.lit_str_or_abort() (crate::attr) abort on these.
MissingValue(attr) == attr.value = None
NotLitStr(attr) == attr.value.form # "lit"

\* The role scan of Item::push_attrs: one iteration of its first loop.
Pass1Attr(it, attr, at) ==
    LET magic == Magic(attr) IN
    IF IsCall(attr) THEN Ok(it)
    ELSE IF magic = "from_global"
         THEN IF attr.value # None
              THEN Abort(it, Err("does_not_accept_a_value", at, attr.name, ""))
              ELSE SetKind(it, KindTy("FromGlobal", "Other"), at)
    ELSE IF magic = "subcommand" /\ attr.value = None
         THEN SetKind(it, KindTy("Subcommand", "Other"), at)
    ELSE IF magic = "external_subcommand" /\ attr.value = None
         THEN SetKind(it, KindUnit("ExternalSubcommand"), at)
    ELSE IF magic = "flatten" /\ attr.value = None
         THEN SetKind(it, KindUnit("Flatten"), at)
    ELSE IF magic = "skip"
         THEN SetKind(it, KindSkip(attr.value, AttrKindOf(it.kind)), at)
    ELSE Ok(it)

\* The namespace check with StructOpt missing from its legacy arm.
CheckAttrKind_Mutant(it, attr, at) ==
    LET actual == attr.kind
        expected == AttrKindOf(it.kind)
    IN IF actual = "Clap"
       THEN Ok([it EXCEPT !.deprecations =
                    Append(@, DeprecationAttribute(actual, expected, at))])
       ELSE IF actual # expected
            THEN Abort(it, Err("expected_attribute", at, expected, actual))
            ELSE Ok(it)

\* The namespace check that opens an iteration of the second loop: the Item with
\* the deprecation of a legacy namespace, or the abort of a mismatch.
CheckAttrKind(it, attr, at) ==
    LET actual == attr.kind
        expected == AttrKindOf(it.kind)
    IN IF actual \in {"Clap", "StructOpt"}
       THEN Ok([it EXCEPT !.deprecations =
                    Append(@, DeprecationAttribute(actual, expected, at))])
       ELSE IF actual # expected
            THEN Abort(it, Err("expected_attribute", at, expected, actual))
            ELSE Ok(it)

\* Is a value_enum directive anywhere in the parsed list?
AnyValueEnum(parsed) == \E k \in DOMAIN parsed : Magic(parsed[k]) = "value_enum"

\* utils::Ty::from_syn_ty on the types of the model
FromSynTy(ty) ==
    CASE ty \in {"Vec<T>", "Vec<bool>"} -> "Vec"
      [] ty \in {"Option<T>", "Option<bool>"} -> "Option"
      [] ty = "Option<Option<T>>" -> "OptionOption"
      [] ty = "Option<Vec<T>>" -> "OptionVec"
      [] OTHER -> "Other"

\* utils::inner_type: one level of Option / Vec (and Option<Option>, Option<Vec>) unwrapped
InnerType(ty) ==
    CASE ty \in {"Vec<T>", "Option<T>", "Option<Option<T>>", "Option<Vec<T>>"} -> "T"
      [] ty \in {"Vec<bool>", "Option<bool>"} -> "bool"
      [] OTHER -> ty

\* utils::is_simple_ty(ty, "bool")
IsSimpleBool(ty) == ty = "bool"

\* default_value_parser (the span of the Method is not modelled)
DefaultValueParser(inner_type) ==
    Method("value_parser", Value("value_parser!", <<inner_type>>))

\* default_action with Option<Vec<_>> in the arm of Option.
DefaultAction_Mutant(field_type) ==
    LET ty == FromSynTy(field_type)
        args == CASE ty = "Vec" -> "Append"
                  [] ty \in {"Option", "OptionOption", "OptionVec"} -> "Set"
                  [] OTHER -> IF IsSimpleBool(field_type) THEN "SetTrue" ELSE "Set"
    IN Method("action", Value("ArgAction", <<args>>))

\* default_action (the span of the Method is not modelled)
DefaultAction(field_type) ==
    LET ty == FromSynTy(field_type)
        args == CASE ty \in {"Vec", "OptionVec"} -> "Append"
                  [] ty \in {"Option", "OptionOption"} -> "Set"
                  [] OTHER -> IF IsSimpleBool(field_type) THEN "SetTrue" ELSE "Set"
    IN Method("action", Value("ArgAction", <<args>>))

\* ValueParser::resolve
ValueParserResolve(p, inner_type) ==
    IF p.tag = "Explicit" THEN Method("value_parser", p.arg)
    ELSE DefaultValueParser(inner_type)

\* Action::resolve
ActionResolve(p, field_type) ==
    IF p.tag = "Explicit" THEN Method("action", p.arg)
    ELSE DefaultAction(field_type)

\* value_parser() inferring from the field type instead of its inner type.
ItemValueParser_Mutant(it, field_type) ==
    IF it.value_parser # NoOverride
    THEN ValueParserResolve(it.value_parser, field_type)
    ELSE DefaultValueParser(field_type)

\* Item::value_parser
ItemValueParser(it, field_type) ==
    IF it.value_parser # NoOverride
    THEN ValueParserResolve(it.value_parser, InnerType(field_type))
    ELSE DefaultValueParser(InnerType(field_type))

\* Item::action
ItemAction(it, field_type) ==
    IF it.action # NoOverride
    THEN ActionResolve(it.action, field_type)
    ELSE DefaultAction(field_type)

\* The singular arms looking for value_enum among the directives up to their own.
DefaultValueT_MutantBefore(it, attr, at, parsed, os) ==
    IF it.ty = "-" THEN Abort(it, Err("only_on_field_level", at, attr.name, ""))
    ELSE LET val == IF attr.value # None THEN attr.value.text
                    ELSE <<"<", it.ty, " as Default>::default()">>
             form == IF AnyValueEnum(SubSeq(parsed, 1, at)) THEN "value_enum_get_name"
                     ELSE IF os THEN "os_string_from" ELSE "to_string"
         IN Ok([it EXCEPT !.methods =
                   Append(@, Method("default_value", Value(form, <<it.ty>> \o val)))])

\* The singular arms registering the Method under the name of the directive.
DefaultValueT_Mutant(it, attr, at, parsed, os) ==
    IF it.ty = "-" THEN Abort(it, Err("only_on_field_level", at, attr.name, ""))
    ELSE LET val == IF attr.value # None THEN attr.value.text
                    ELSE <<"<", it.ty, " as Default>::default()">>
             form == IF AnyValueEnum(parsed) THEN "value_enum_get_name"
                     ELSE IF os THEN "os_string_from" ELSE "to_string"
         IN Ok([it EXCEPT !.methods =
                   Append(@, Method(attr.name, Value(form, <<it.ty>> \o val)))])

\* The arms DefaultValueT / DefaultValueOsT of the second loop.
DefaultValueT(it, attr, at, parsed, os) ==
    IF it.ty = "-" THEN Abort(it, Err("only_on_field_level", at, attr.name, ""))
    ELSE LET val == IF attr.value # None THEN attr.value.text
                    ELSE <<"<", it.ty, " as Default>::default()">>
             form == IF AnyValueEnum(parsed) THEN "value_enum_get_name"
                     ELSE IF os THEN "os_string_from" ELSE "to_string"
         IN Ok([it EXCEPT !.methods =
                   Append(@, Method("default_value", Value(form, <<it.ty>> \o val)))])

\* The plural arms without the test for a Vec type.
DefaultValuesT_Mutant(it, attr, at, parsed, os) ==
    IF it.ty = "-" THEN Abort(it, Err("only_on_field_level", at, attr.name, ""))
    ELSE IF MissingValue(attr) THEN Abort(it, Err("requires_a_value", at, attr.name, ""))
    ELSE LET form == IF AnyValueEnum(parsed) THEN "iter_value_enum_get_name"
                     ELSE IF os THEN "iter_into_os_string" ELSE "iter_to_string"
         IN Ok([it EXCEPT !.methods =
                   Append(@, Method("default_values",
                                    Value(form, <<InnerType(it.ty)>> \o attr.value.text)))])

\* The arms DefaultValuesT / DefaultValuesOsT of the second loop.
DefaultValuesT(it, attr, at, parsed, os) ==
    IF it.ty = "-" THEN Abort(it, Err("only_on_field_level", at, attr.name, ""))
    ELSE IF MissingValue(attr) THEN Abort(it, Err("requires_a_value", at, attr.name, ""))
    ELSE IF FromSynTy(it.ty) # "Vec" THEN Abort(it, Err("only_on_vec_types", at, attr.name, ""))
    ELSE LET form == IF AnyValueEnum(parsed) THEN "iter_value_enum_get_name"
                     ELSE IF os THEN "iter_into_os_string" ELSE "iter_to_string"
         IN Ok([it EXCEPT !.methods =
                   Append(@, Method("default_values",
                                    Value(form, <<InnerType(it.ty)>> \o attr.value.text)))])

\* The dispatch on attr.magic that ends an iteration of the second loop.
Dispatch(it, attr, at, parsed, env) ==
    LET magic == Magic(attr)
        bare == attr.value = None
        forward == IF MissingValue(attr)
                   THEN Abort(it, Err("requires_a_value", at, attr.name, ""))
                   ELSE Ok(PushMethod(it, attr.name, attr.value))
        from_env(var) ==
            LET m == FromEnv(attr.name, env[var]) IN
            IF m.abort THEN Abort(it, Err("cannot_derive_from_cargo_toml", at, attr.name, var))
            ELSE IF m.some THEN Ok([it EXCEPT !.methods = Append(@, m.method)])
            ELSE Ok(it)
    IN
    CASE magic = "short" /\ bare ->
            Ok(PushMethod(it, attr.name, TranslateChar(it.name, it.casing)))
      [] magic = "long" /\ bare ->
            Ok(PushMethod(it, attr.name, Translate(it.name, it.casing)))
      [] magic = "value_parser" /\ bare ->
            Ok([it EXCEPT !.deprecations = Append(@, Deprecation("bare_value_parser", at)),
                          !.value_parser = Implicit(at)])
      [] magic = "action" /\ bare ->
            Ok([it EXCEPT !.deprecations = Append(@, Deprecation("bare_action", at)),
                          !.action = Implicit(at)])
      [] magic = "env" /\ bare ->
            Ok(PushMethod(it, attr.name, Translate(it.name, it.env_casing)))
      [] magic = "value_enum" /\ bare -> Ok([it EXCEPT !.is_enum = TRUE])
      [] magic = "verbatim_doc_comment" /\ bare -> Ok([it EXCEPT !.verbatim_doc_comment = TRUE])
      [] magic = "about" /\ bare -> from_env("CARGO_PKG_DESCRIPTION")
      [] magic = "author" /\ bare -> from_env("CARGO_PKG_AUTHORS")
      [] magic = "version" /\ bare -> from_env("CARGO_PKG_VERSION")
      [] magic = "default_value_t" -> DefaultValueT(it, attr, at, parsed, FALSE)
      [] magic = "default_values_t" -> DefaultValuesT(it, attr, at, parsed, FALSE)
      [] magic = "default_value_os_t" -> DefaultValueT(it, attr, at, parsed, TRUE)
      [] magic = "default_values_os_t" -> DefaultValuesT(it, attr, at, parsed, TRUE)
      [] magic = "next_display_order" ->
            IF MissingValue(attr) THEN Abort(it, Err("requires_a_value", at, attr.name, ""))
            ELSE Ok([it EXCEPT !.next_display_order = Method(attr.name, attr.value)])
      [] magic = "next_help_heading" ->
            IF MissingValue(attr) THEN Abort(it, Err("requires_a_value", at, attr.name, ""))
            ELSE Ok([it EXCEPT !.next_help_heading = Method(attr.name, attr.value)])
      [] magic = "rename_all" ->
            IF NotLitStr(attr) THEN Abort(it, Err("requires_a_string_literal", at, attr.name, ""))
            ELSE IF FromLit(attr.value.text) = "unsupported"
                 THEN Abort(it, Err("unsupported_casing", at, attr.name, ""))
                 ELSE Ok([it EXCEPT !.casing = FromLit(attr.value.text)])
      [] magic = "rename_all_env" ->
            IF NotLitStr(attr) THEN Abort(it, Err("requires_a_string_literal", at, attr.name, ""))
            ELSE IF FromLit(attr.value.text) = "unsupported"
                 THEN Abort(it, Err("unsupported_casing", at, attr.name, ""))
                 ELSE Ok([it EXCEPT !.env_casing = FromLit(attr.value.text)])
      [] magic \in {"None", "short", "long", "env", "about", "author", "version"} /\ ~bare ->
            forward
      [] magic = "None" /\ bare -> forward
      [] magic \in {"value_parser", "action"} /\ ~bare -> forward
      [] magic \in {"value_enum", "verbatim_doc_comment"} /\ ~bare ->
            Abort(it, Err("does_not_accept_a_value", at, attr.name, ""))
      [] magic \in {"from_global", "subcommand", "external_subcommand", "flatten", "skip"} ->
            Ok(it)

\* The full interpretation of Item::push_attrs: one iteration of its second loop.
Pass2Attr(it, attr, at, parsed, env) ==
    LET checked == CheckAttrKind(it, attr, at) IN
    IF checked.err # NoErr THEN checked
    ELSE IF IsCall(attr) THEN Ok(PushMethod(checked.item, attr.name, attr.value))
    ELSE Dispatch(checked.item, attr, at, parsed, env)

\* utils::process_doc_comment: no Method without a doc line; otherwise the short
\* text under `name` and the long text under long_`name`, which is None when no
\* blank line separates a first paragraph from the rest.
ProcessDocComment(lines, name, preprocess) ==
    LET form == IF preprocess THEN "doc" ELSE "doc_verbatim"
        long_name == IF name = "about" THEN "long_about" ELSE "long_help"
        blank == {k \in DOMAIN lines : lines[k] = ""}
    IN IF lines = <<>> THEN <<>>
       ELSE IF blank = {}
            THEN <<Method(name, Value(form, lines)), Method(long_name, None)>>
            ELSE <<Method(name, Value(form, SubSeq(lines, 1, (CHOOSE k \in blank :
                                            \A j \in blank : k <= j) - 1))),
                   Method(long_name, Value(form, lines))>>

\* Item::push_doc_comment
PushDocComment(it, lines, name) ==
    [it EXCEPT !.doc_comment = ProcessDocComment(lines, name, ~it.verbatim_doc_comment)]

\* ------------------------------------------------------- declaration sites

ContainerKinds == {"args_struct", "subcommand_enum", "value_enum"}
SiteKinds == ContainerKinds \cup {"subcommand_variant", "value_enum_variant", "args_field"}

\* A declaration site.  `ty` is the type of a struct member, or of the first
\* unnamed field of a variant ("-" without one); `fields` is syn::Fields of a
\* variant with the number of its unnamed fields; casing and env_casing are the
\* styles handed to the constructor; env is the build environment.
Site(kind, ident, ty, fields, len, doc, casing, env_casing, env) ==
    [kind |-> kind, ident |-> ident, ty |-> ty, fields |-> fields, len |-> len,
     doc |-> doc, casing |-> casing, env_casing |-> env_casing, env |-> env]

\* The constructors of variants and members starting from the default styles.
NewItem_Mutant(st) ==
    CASE st.kind \in {"args_struct", "subcommand_enum", "subcommand_variant"} ->
            New(Derived(st.ident), "-", DEFAULT_CASING, DEFAULT_ENV_CASING,
                KindTy("Command", "Other"))
      [] st.kind \in {"value_enum", "value_enum_variant"} ->
            New(Derived(st.ident), "-", DEFAULT_CASING, DEFAULT_ENV_CASING,
                KindTy("Value", "Other"))
      [] st.kind = "args_field" ->
            New(Derived(st.ident), st.ty, DEFAULT_CASING, DEFAULT_ENV_CASING,
                KindTy("Arg", "Other"))

\* The Item each constructor starts from: from_args_struct, from_subcommand_enum,
\* from_value_enum, from_subcommand_variant, from_value_enum_variant, from_args_field.
NewItem(st) ==
    CASE st.kind \in {"args_struct", "subcommand_enum"} ->
            New(Derived(st.ident), "-", DEFAULT_CASING, DEFAULT_ENV_CASING,
                KindTy("Command", "Other"))
      [] st.kind = "value_enum" ->
            New(Derived(st.ident), "-", DEFAULT_CASING, DEFAULT_ENV_CASING,
                KindTy("Value", "Other"))
      [] st.kind = "subcommand_variant" ->
            New(Derived(st.ident), "-", st.casing, st.env_casing, KindTy("Command", "Other"))
      [] st.kind = "value_enum_variant" ->
            New(Derived(st.ident), "-", st.casing, st.env_casing, KindTy("Value", "Other"))
      [] st.kind = "args_field" ->
            New(Derived(st.ident), st.ty, st.casing, st.env_casing, KindTy("Arg", "Other"))

\* The name push_doc_comment is called with by each constructor.
DocName(st) ==
    IF st.kind \in {"value_enum_variant", "args_field"} THEN "help" ELSE "about"

\* The checks that end Item::from_struct.
FromStructEnd(it) ==
    IF it.value_parser # NoOverride
    THEN Abort(it, Err("only_allowed_on_fields", 0, "value_parser", ""))
    ELSE IF it.action # NoOverride
    THEN Abort(it, Err("only_allowed_on_fields", 0, "action", ""))
    ELSE Ok(it)

\* The checks that end Item::from_value_enum_variant.
FromValueEnumVariantEnd(it) ==
    IF it.value_parser # NoOverride
    THEN Abort(it, Err("only_allowed_on_fields", 0, "value_parser", ""))
    ELSE IF it.action # NoOverride
    THEN Abort(it, Err("only_allowed_on_fields", 0, "action", ""))
    ELSE Ok(it)

\* The Kind::Flatten arm of from_subcommand_variant and of from_args_field.
FlattenArm(it) ==
    IF it.value_parser # NoOverride
    THEN Abort(it, Err("not_allowed_for_flattened_entry", 0, "value_parser", ""))
    ELSE IF it.action # NoOverride
    THEN Abort(it, Err("not_allowed_for_flattened_entry", 0, "action", ""))
    ELSE IF HasExplicitMethods(it)
    THEN Abort(it, Err("not_allowed_for_flattened_entry", 0, "methods", ""))
    ELSE Ok([it EXCEPT !.doc_comment = <<>>])

\* The shape check without its Ty::OptionVec arm.
SubcommandTy_Mutant(it, ty) ==
    IF FromSynTy(ty) = "OptionOption"
    THEN Abort(it, Err("not_allowed_for_subcommand", 0, "Option<Option<T>>", ""))
    ELSE Ok([it EXCEPT !.kind = KindTy("Subcommand", FromSynTy(ty))])

\* The shape check of the Kind::Subcommand arms.
SubcommandTy(it, ty) ==
    IF FromSynTy(ty) = "OptionOption"
    THEN Abort(it, Err("not_allowed_for_subcommand", 0, "Option<Option<T>>", ""))
    ELSE IF FromSynTy(ty) = "OptionVec"
    THEN Abort(it, Err("not_allowed_for_subcommand", 0, "Option<Vec<T>>", ""))
    ELSE Ok([it EXCEPT !.kind = KindTy("Subcommand", FromSynTy(ty))])

\* The match on res.kind that ends Item::from_subcommand_variant.
FromSubcommandVariantEnd(it, st) ==
    CASE it.kind.tag = "Flatten" -> FlattenArm(it)
      [] it.kind.tag = "Subcommand" ->
            IF it.value_parser # NoOverride
            THEN Abort(it, Err("not_allowed_for_subcommand", 0, "value_parser", ""))
            ELSE IF it.action # NoOverride
            THEN Abort(it, Err("not_allowed_for_subcommand", 0, "action", ""))
            ELSE IF st.fields = "Named"
            THEN Abort(it, Err("not_allowed_for_subcommand", 0, "structs", ""))
            ELSE IF st.fields = "Unit"
            THEN Abort(it, Err("not_allowed_for_subcommand", 0, "unit-type", ""))
            ELSE IF st.len # 1
            THEN Abort(it, Err("not_allowed_for_subcommand", 0, "non single-typed tuple", ""))
            ELSE SubcommandTy(it, st.ty)
      [] OTHER -> Ok(it)

\* The end of from_args_field with the positional test of Option<Vec<T>> moved to
\* Vec<T>.
FromArgsFieldEnd_MutantPositional(it, st) ==
    CASE it.kind.tag = "Flatten" -> FlattenArm(it)
      [] it.kind.tag = "Subcommand" ->
            IF it.value_parser # NoOverride
            THEN Abort(it, Err("not_allowed_for_subcommand", 0, "value_parser", ""))
            ELSE IF it.action # NoOverride
            THEN Abort(it, Err("not_allowed_for_subcommand", 0, "action", ""))
            ELSE IF HasExplicitMethods(it)
            THEN Abort(it, Err("not_allowed_for_subcommand", 0, "methods", ""))
            ELSE SubcommandTy(it, st.ty)
      [] it.kind.tag = "Skip" ->
            IF HasExplicitMethods(it)
            THEN Abort(it, Err("not_allowed_for_skipped_fields", 0, "methods", ""))
            ELSE Ok(it)
      [] it.kind.tag = "FromGlobal" ->
            Ok([it EXCEPT !.kind = KindTy("FromGlobal", FromSynTy(st.ty))])
      [] it.kind.tag = "Arg" ->
            LET ty == FromSynTy(st.ty) IN
            IF ty = "Option" /\ FindDefaultMethod(it) # {}
            THEN Abort(it, Err("meaningless_for_option", 0, "default_value", ""))
            ELSE IF ty = "OptionOption" /\ it.is_positional
            THEN Abort(it, Err("meaningless_for_positional", 0, "Option<Option<T>>", ""))
            ELSE IF ty = "Vec" /\ it.is_positional
            THEN Abort(it, Err("meaningless_for_positional", 0, "Option<Vec<T>>", ""))
            ELSE Ok([it EXCEPT !.kind = KindTy("Arg", ty)])
      [] OTHER -> Ok(it)

\* The match on res.kind that ends Item::from_args_field.
FromArgsFieldEnd(it, st) ==
    CASE it.kind.tag = "Flatten" -> FlattenArm(it)
      [] it.kind.tag = "Subcommand" ->
            IF it.value_parser # NoOverride
            THEN Abort(it, Err("not_allowed_for_subcommand", 0, "value_parser", ""))
            ELSE IF it.action # NoOverride
            THEN Abort(it, Err("not_allowed_for_subcommand", 0, "action", ""))
            ELSE IF HasExplicitMethods(it)
            THEN Abort(it, Err("not_allowed_for_subcommand", 0, "methods", ""))
            ELSE SubcommandTy(it, st.ty)
      [] it.kind.tag = "Skip" ->
            IF HasExplicitMethods(it)
            THEN Abort(it, Err("not_allowed_for_skipped_fields", 0, "methods", ""))
            ELSE Ok(it)
      [] it.kind.tag = "FromGlobal" ->
            Ok([it EXCEPT !.kind = KindTy("FromGlobal", FromSynTy(st.ty))])
      [] it.kind.tag = "Arg" ->
            LET ty == FromSynTy(st.ty) IN
            IF ty = "Option" /\ FindDefaultMethod(it) # {}
            THEN Abort(it, Err("meaningless_for_option", 0, "default_value", ""))
            ELSE IF ty = "OptionOption" /\ it.is_positional
            THEN Abort(it, Err("meaningless_for_positional", 0, "Option<Option<T>>", ""))
            ELSE IF ty = "OptionVec" /\ it.is_positional
            THEN Abort(it, Err("meaningless_for_positional", 0, "Option<Vec<T>>", ""))
            ELSE Ok([it EXCEPT !.kind = KindTy("Arg", ty)])
      [] OTHER -> Ok(it)

\* --------------------------------------------------------------- actions

\* The constructor entering the second loop of push_attrs without the first.
StartPc_Mutant(parsed) == IF parsed = <<>> THEN "doc" ELSE "pass2"

\* Where the constructor goes after Item::new: into the first loop of push_attrs,
\* or past both loops when the site has no directive.
StartPc(parsed) == IF parsed = <<>> THEN "doc" ELSE "pass1"

\* The state after construction: Item::new was called for a site of Sites whose
\* directives are drawn from Universe.
InitWith(Sites, Universe) ==
    /\ site \in Sites
    /\ attrs \in UNION {[1..n -> Universe] : n \in 0..MaxAttrs}
    /\ pc = StartPc(attrs)
    /\ idx = 1
    /\ item = NewItem(site)
    /\ err = NoErr
    /\ new_kind = NoKind

\* A step that ended in `r`: abort!() ends the construction, otherwise the
\* constructor moves to `next_pc` / `next_idx`.
Step(r, next_pc, next_idx) ==
    /\ item' = r.item
    /\ err' = IF r.err # NoErr THEN [r.err EXCEPT !.phase = pc] ELSE NoErr
    /\ pc' = IF r.err # NoErr THEN "aborted" ELSE next_pc
    /\ idx' = IF r.err # NoErr THEN idx ELSE next_idx
    /\ UNCHANGED <<site, attrs, new_kind>>

\* push_attrs, first loop, directive idx
Pass1 ==
    /\ pc = "pass1"
    /\ IF idx < Len(attrs)
       THEN Step(Pass1Attr(item, attrs[idx], idx), "pass1", idx + 1)
       ELSE Step(Pass1Attr(item, attrs[idx], idx), "pass2", 1)

\* push_attrs, second loop, directive idx
Pass2 ==
    /\ pc = "pass2"
    /\ IF idx < Len(attrs)
       THEN Step(Pass2Attr(item, attrs[idx], idx, attrs, site.env), "pass2", idx + 1)
       ELSE Step(Pass2Attr(item, attrs[idx], idx, attrs, site.env), "doc", 1)

\* res.push_doc_comment(attrs, name)
DocComment ==
    /\ pc = "doc"
    /\ Step(Ok(PushDocComment(item, site.doc, DocName(site))), "end", 1)

\* The end of from_struct (from_args_struct, from_subcommand_enum, from_value_enum)
FromStruct ==
    /\ pc = "end"
    /\ site.kind \in ContainerKinds
    /\ Step(FromStructEnd(item), "done", 1)

\* The end of from_subcommand_variant
FromSubcommandVariant ==
    /\ pc = "end"
    /\ site.kind = "subcommand_variant"
    /\ Step(FromSubcommandVariantEnd(item, site), "done", 1)

\* The end of from_value_enum_variant
FromValueEnumVariant ==
    /\ pc = "end"
    /\ site.kind = "value_enum_variant"
    /\ Step(FromValueEnumVariantEnd(item), "done", 1)

\* The end of from_args_field
FromArgsField ==
    /\ pc = "end"
    /\ site.kind = "args_field"
    /\ Step(FromArgsFieldEnd(item, site), "done", 1)

Next ==
    \/ Pass1
    \/ Pass2
    \/ DocComment
    \/ FromStruct
    \/ FromSubcommandVariant
    \/ FromValueEnumVariant
    \/ FromArgsField

\* A direct call of Item::set_kind(new_kind) on an Item of any Role.
CallSetKind ==
    /\ pc = "set_kind"
    /\ Step(SetKind(item, new_kind, 0), "done", 1)

NextSetKind == CallSetKind

\* ------------------------------------------------------- specifications

\* The build environment of the sites: description, authors and version are set.
CargoEnv ==
    [CARGO_PKG_DESCRIPTION |-> <<"d">>,
     CARGO_PKG_AUTHORS |-> <<"a", ":", "b">>,
     CARGO_PKG_VERSION |-> <<"1">>]

IdentCli == <<"C", "l", "i">>
IdentVerbose == <<"v", "e", "r", "b", "o", "s", "e">>
IdentRunFast == <<"R", "u", "n", "F", "a", "s", "t">>

\* The doc comments of a site: none, or one line.
DocLines == {<<>>, <<"d">>}

\* The declared types of struct members and of variant payloads.
FieldTypes == {"T", "Option<T>", "Option<Option<T>>", "Vec<T>", "Option<Vec<T>>"}

\* syn::Fields of a variant: <<shape, type of the first unnamed field, number of
\* unnamed fields>>.
VariantFields ==
    {<<"Named", "-", 0>>, <<"Unit", "-", 0>>, <<"Unnamed", "-", 0>>, <<"Unnamed", "T", 2>>}
    \cup {<<"Unnamed", t, 1>> : t \in FieldTypes}

Containers(docs) ==
    {Site(k, IdentCli, "-", "-", 0, d, DEFAULT_CASING, DEFAULT_ENV_CASING, CargoEnv) :
        k \in ContainerKinds, d \in docs}

SubcommandVariants(fields, docs) ==
    {Site("subcommand_variant", IdentRunFast, f[2], f[1], f[3], d,
          DEFAULT_CASING, DEFAULT_ENV_CASING, CargoEnv) : f \in fields, d \in docs}

ValueEnumVariants(docs) ==
    {Site("value_enum_variant", IdentRunFast, "-", "Unit", 0, d,
          DEFAULT_CASING, DEFAULT_ENV_CASING, CargoEnv) : d \in docs}

ArgsFields(types, docs) ==
    {Site("args_field", IdentVerbose, t, "-", 0, d,
          DEFAULT_CASING, DEFAULT_ENV_CASING, CargoEnv) : t \in types, d \in docs}

\* The values a directive carries: an expression, a string literal, a raw call.
AnExpr == Value("expr", <<"e">>)
ALit == Value("lit", <<"x">>)
ACall == Value("call", <<"t">>)

\* Spec: every kind of site, with and without a doc comment, under directives of
\* the role, flag, override and help families.
RoleSites ==
    Containers(DocLines)
    \cup SubcommandVariants({<<"Unnamed", "T", 1>>}, DocLines)
    \cup ValueEnumVariants(DocLines)
    \cup ArgsFields({"T"}, DocLines)

RoleUniverse ==
    {Attr(n, "Command", v) :
        n \in {"flatten", "subcommand", "external_subcommand", "skip"}, v \in {None, AnExpr}}
    \cup {Attr("from_global", "Arg", v) : v \in {None, AnExpr}}
    \cup {Attr("skip", k, AnExpr) : k \in {"Arg", "Value"}}
    \cup {Attr("long", "Arg", v) : v \in {None, ALit, ACall}}
    \cup {Attr("long", "Command", None), Attr("short", "Arg", None)}
    \cup {Attr("value_parser", k, None) : k \in {"Command", "Arg", "Value"}}
    \cup {Attr("value_parser", "Command", AnExpr), Attr("action", "Command", AnExpr),
          Attr("action", "Arg", AnExpr), Attr("action", "Value", ACall)}
    \cup {Attr("help", k, ALit) : k \in {"Command", "Arg", "Value"}}

Init == InitWith(RoleSites, RoleUniverse)

Spec == Init /\ [][Next]_vars

\* SpecNs: one site of every kind, under role directives and a forwarded call in
\* every namespace.
NsSites ==
    Containers({<<>>})
    \cup SubcommandVariants({<<"Unnamed", "T", 1>>}, {<<>>})
    \cup ValueEnumVariants({<<>>})
    \cup ArgsFields({"T"}, {<<>>})

NsUniverse ==
    {Attr(n, k, None) :
        n \in {"from_global", "subcommand", "external_subcommand", "flatten", "skip"},
        k \in {"Arg", "Command", "Value", "Clap"}}
    \cup {Attr("help", k, ALit) : k \in AttrKinds}
    \cup {Attr("flatten", "StructOpt", None), Attr("value_parser", "Clap", None)}

InitNs == InitWith(NsSites, NsUniverse)

SpecNs == InitNs /\ [][Next]_vars

\* SpecSubcommand: variants of every field layout and members of every type, under
\* the subcommand and flatten directives and what conflicts with them.
SubcommandSites ==
    Containers({<<>>})
    \cup SubcommandVariants(VariantFields, {<<>>})
    \cup ValueEnumVariants({<<>>})
    \cup ArgsFields(FieldTypes, {<<>>})

SubcommandUniverse ==
    {Attr("subcommand", "Command", None), Attr("flatten", "Command", None),
     Attr("value_parser", "Command", None), Attr("action", "Command", AnExpr),
     Attr("long", "Command", None), Attr("help", "Command", ALit),
     Attr("help", "Value", ALit), Attr("long", "Arg", None)}

InitSubcommand == InitWith(SubcommandSites, SubcommandUniverse)

SpecSubcommand == InitSubcommand /\ [][Next]_vars

\* SpecCall: one site of every kind, under raw-call directives of every name
\* push_method tells apart and of names with a magic meaning, and under the bare
\* and explicit forms of the two overrides.
CallUniverse ==
    {Attr(n, "Arg", ACall) :
        n \in {"name", "id", "value_parser", "action", "short", "long", "help",
               "rename_all", "env", "default_value_t"}}
    \cup {Attr(n, "Command", ACall) : n \in {"name", "about", "rename_all_env", "action"}}
    \cup {Attr("help", "Value", ACall), Attr("id", "Value", ACall),
          Attr("long", "Clap", ACall)}
    \cup {Attr(n, "Arg", v) : n \in {"value_parser", "action"}, v \in {None, AnExpr}}
    \cup {Attr("value_parser", "Command", None), Attr("help", "Arg", ALit)}

InitCall == InitWith(NsSites, CallUniverse)

SpecCall == InitCall /\ [][Next]_vars

\* SpecCasing: members of several identifiers under every inherited argument
\* casing style, and one site of every other kind, under the bare flag and env directives, the renaming directives and an
\* assigned name.
IdentUnderX == <<"_", "x", "Y">>

CasingIdents == {IdentVerbose, IdentRunFast, IdentUnderX}

LitCamel == Value("lit", <<"c", "a", "m", "e", "l">>)
LitSnakeCase == Value("lit", <<"s", "n", "a", "k", "e", "_", "c", "a", "s", "e">>)
LitUpper == Value("lit", <<"U", "P", "P", "E", "R">>)

CasingSites ==
    NsSites
    \cup {Site("args_field", i, "T", "-", 0, <<>>, c, DEFAULT_ENV_CASING, CargoEnv) :
             i \in CasingIdents, c \in CasingStyles}

CasingUniverse ==
    {Attr(n, "Arg", None) : n \in {"long", "short", "env"}}
    \cup {Attr("rename_all", "Arg", v) : v \in {LitCamel, LitUpper, ALit, AnExpr}}
    \cup {Attr("rename_all_env", "Arg", v) : v \in {LitSnakeCase, LitUpper, None}}
    \cup {Attr("name", "Arg", ALit)}
    \cup {Attr("rename_all", "Command", LitCamel), Attr("rename_all_env", "Value", LitUpper),
          Attr("long", "Command", None)}

InitCasing == InitWith(CasingSites, CasingUniverse)

SpecCasing == InitCasing /\ [][Next]_vars

\* SpecTopLevel: containers under every build environment (each variable unset,
\* empty or set) and one site of every other kind, with and without a doc comment,
\* under the bare and explicit metadata directives, the next_display_order and
\* next_help_heading directives and help.
CargoEnvs ==
    [CARGO_PKG_DESCRIPTION : {Unset, <<>>, CargoEnv.CARGO_PKG_DESCRIPTION},
     CARGO_PKG_AUTHORS : {Unset, <<>>, CargoEnv.CARGO_PKG_AUTHORS},
     CARGO_PKG_VERSION : {Unset, <<>>, CargoEnv.CARGO_PKG_VERSION}]

TopLevelSites ==
    {Site(k, IdentCli, "-", "-", 0, <<>>, DEFAULT_CASING, DEFAULT_ENV_CASING, e) :
        k \in ContainerKinds, e \in CargoEnvs}
    \cup Containers(DocLines)
    \cup SubcommandVariants({<<"Unnamed", "T", 1>>}, DocLines)
    \cup ValueEnumVariants(DocLines)
    \cup ArgsFields({"T"}, DocLines)

TopLevelUniverse ==
    {Attr(n, "Command", None) : n \in {"about", "author", "version"}}
    \cup {Attr("about", "Command", ALit)}
    \cup {Attr(n, "Command", v) :
             n \in {"next_display_order", "next_help_heading"}, v \in {None, AnExpr}}
    \cup {Attr("next_help_heading", "Arg", ALit), Attr("next_display_order", "Arg", AnExpr),
          Attr("next_help_heading", "Value", None)}
    \cup {Attr("help", k, ALit) : k \in {"Command", "Arg"}}

InitTopLevel == InitWith(TopLevelSites, TopLevelUniverse)

SpecTopLevel == InitTopLevel /\ [][Next]_vars

\* SpecAuthor: one site of every kind with a bare author directive, under every
\* authors string of at most MaxAuthorLen characters and the example of the
\* specification.
AuthorChars == {"a", ":", "<", ">"}

AuthorExample == <<"a", "<", "x", ":", "y", ">", ":", "b">>

AuthorStrings ==
    UNION {[1..n -> AuthorChars] : n \in 0..MaxAuthorLen} \cup {AuthorExample}

AuthorSites ==
    {[st EXCEPT !.env.CARGO_PKG_AUTHORS = a] : st \in NsSites, a \in AuthorStrings}

InitAuthor ==
    /\ site \in AuthorSites
    /\ attrs \in {<<Attr("author", k, None)>> : k \in {"Command", "Arg", "Value"}}
    /\ pc = StartPc(attrs)
    /\ idx = 1
    /\ item = NewItem(site)
    /\ err = NoErr
    /\ new_kind = NoKind

SpecAuthor == InitAuthor /\ [][Next]_vars

\* SpecDefault: members of every declared type and one site of every other kind,
\* under the four typed-default directives (bare, with a value, in the namespace
\* of each Role) and the role and value_enum directives they meet.
TypedDefaults ==
    {"default_value_t", "default_value_os_t", "default_values_t", "default_values_os_t"}

DefaultSites ==
    Containers({<<>>})
    \cup SubcommandVariants({<<"Unnamed", "T", 1>>}, {<<>>})
    \cup ValueEnumVariants({<<>>})
    \cup ArgsFields(FieldTypes, {<<>>})

DefaultUniverse ==
    {Attr(n, "Arg", v) : n \in TypedDefaults, v \in {None, AnExpr}}
    \cup {Attr(n, "Command", AnExpr) : n \in TypedDefaults}
    \cup {Attr("default_value_t", "Value", None), Attr("default_values_os_t", "Value", AnExpr)}
    \cup {Attr(n, "Arg", None) : n \in {"from_global", "value_enum", "skip"}}
    \cup {Attr("flatten", "Command", None), Attr("default_values_t", "Arg", ACall),
          Attr("default_value", "Arg", ALit)}

InitDefault == InitWith(DefaultSites, DefaultUniverse)

SpecDefault == InitDefault /\ [][Next]_vars

\* SpecInherit: a variant of either enum and a member, each handed every
\* argument-casing style and two env-casing styles by its container, and one
\* site of every kind under the default styles, under the bare flag and env
\* directives, the renaming directives and assigned names.
InheritSites ==
    NsSites
    \cup {Site("subcommand_variant", IdentRunFast, "T", "Unnamed", 1, <<>>, c, e, CargoEnv) :
             c \in CasingStyles, e \in {DEFAULT_ENV_CASING, "Camel"}}
    \cup {Site("value_enum_variant", IdentRunFast, "-", "Unit", 0, <<>>, c, e, CargoEnv) :
             c \in CasingStyles, e \in {DEFAULT_ENV_CASING, "Camel"}}
    \cup {Site("args_field", IdentRunFast, "T", "-", 0, <<>>, c, e, CargoEnv) :
             c \in CasingStyles, e \in {DEFAULT_ENV_CASING, "Camel"}}

InheritUniverse ==
    {Attr(n, "Arg", None) : n \in {"long", "short", "env"}}
    \cup {Attr("rename_all", "Arg", LitCamel), Attr("rename_all_env", "Arg", LitSnakeCase),
          Attr("name", "Arg", ALit), Attr("id", "Arg", AnExpr)}
    \cup {Attr("rename_all", "Command", LitUpper), Attr("name", "Command", ALit),
          Attr("long", "Command", None)}
    \cup {Attr("rename_all", "Value", LitCamel), Attr("name", "Value", ALit)}

InitInherit == InitWith(InheritSites, InheritUniverse)

SpecInherit == InitInherit /\ [][Next]_vars

\* SpecInfer: members of every declared type, bool types included, and one site
\* of every other kind, under the override directives in every form, once or
\* twice, a flag and help.
InferTypes == FieldTypes \cup {"bool", "Option<bool>", "Vec<bool>"}

InferSites == NsSites \cup ArgsFields(InferTypes, {<<>>})

InferUniverse ==
    {Attr("action", "Arg", v) : v \in {None, AnExpr, ACall}}
    \cup {Attr("value_parser", "Arg", v) : v \in {None, AnExpr, ALit}}
    \cup {Attr("long", "Arg", None), Attr("value_parser", "Command", AnExpr)}
    \cup {Attr("help", k, ALit) : k \in {"Arg", "Command", "Value"}}

InitInfer == InitWith(InferSites, InferUniverse)

SpecInfer == InitInfer /\ [][Next]_vars

\* SpecDoc: one site of every kind without a doc comment, with a one-line doc
\* comment and with a doc comment of two paragraphs, under help, long_help and
\* other forwarded directives and verbatim_doc_comment.
LongDocLines == DocLines \cup {<<"d", "", "e">>}

DocSites ==
    Containers(LongDocLines)
    \cup SubcommandVariants({<<"Unnamed", "T", 1>>}, LongDocLines)
    \cup ValueEnumVariants(LongDocLines)
    \cup ArgsFields({"T"}, LongDocLines)

DocUniverse ==
    {Attr("help", k, ALit) : k \in {"Arg", "Value", "Command"}}
    \cup {Attr("long_help", k, ALit) : k \in {"Arg", "Value"}}
    \cup {Attr("verbatim_doc_comment", k, None) : k \in {"Arg", "Value"}}
    \cup {Attr("long", "Arg", ALit), Attr("about", "Command", ALit)}

InitDoc == InitWith(DocSites, DocUniverse)

SpecDoc == InitDoc /\ [][Next]_vars

\* SpecSetKind: Item::set_kind called with every Kind on an Item of every Kind.
AllKinds ==
    {KindTy(tag, ty) : tag \in {"Arg", "Command", "Value", "FromGlobal", "Subcommand"},
                       ty \in Tys}
    \cup {KindUnit("Flatten"), KindUnit("ExternalSubcommand")}
    \cup {KindSkip(e, k) : e \in {None, AnExpr}, k \in {"Arg", "Command", "Value"}}

InitSetKind ==
    /\ site \in ArgsFields({"T"}, {<<>>})
    /\ attrs = <<>>
    /\ pc = "set_kind"
    /\ idx = 1
    /\ \E k \in AllKinds : item = New(Derived(site.ident), "-", site.casing, site.env_casing, k)
    /\ err = NoErr
    /\ new_kind \in AllKinds

\* SpecPasses: one site of every kind, under role directives (one of them with a
\* value), directives the second loop rejects (no value, an unknown casing style,
\* a typed default, a foreign namespace) and directives it records.
PassUniverse ==
    {Attr("from_global", "Arg", v) : v \in {None, AnExpr}}
    \cup {Attr(n, "Command", None) : n \in {"flatten", "subcommand", "external_subcommand"}}
    \cup {Attr("skip", "Arg", None)}
    \cup {Attr("help", k, None) : k \in {"Arg", "Command"}}
    \cup {Attr("rename_all", k, ALit) : k \in {"Arg", "Command"}}
    \cup {Attr("default_values_t", "Arg", AnExpr), Attr("default_value_t", "Command", None),
          Attr("long", "Value", None)}
    \cup {Attr("long", k, None) : k \in {"Arg", "Command"}}
    \cup {Attr("rename_all", "Arg", LitCamel), Attr("rename_all", "Command", LitUpper),
          Attr("value_parser", "Clap", None)}

InitPasses == InitWith(NsSites, PassUniverse)

SpecPasses == InitPasses /\ [][Next]_vars

\* SpecField: members of every declared type and one site of every other kind,
\* under the flag directives in each form, other configuration calls, help, and
\* the subcommand, skip and from_global directives.
FieldUniverse ==
    {Attr("long", "Arg", v) : v \in {None, ALit, ACall}}
    \cup {Attr(n, "Arg", None) : n \in {"short", "env", "from_global"}}
    \cup {Attr("skip", "Arg", v) : v \in {None, AnExpr}}
    \cup {Attr("help", k, ALit) : k \in {"Arg", "Command"}}
    \cup {Attr("default_value", "Arg", ALit), Attr("long_help", "Arg", ALit)}
    \cup {Attr("subcommand", "Command", None), Attr("long", "Command", None),
          Attr("about", "Command", ALit), Attr("value_parser", "Arg", AnExpr)}

InitField == InitWith(DefaultSites, FieldUniverse)

SpecField == InitField /\ [][Next]_vars

SpecSetKind == InitSetKind /\ [][NextSetKind]_vars

\* ----------------------------------------------------------------- claims

\* The transition table of the specification, as (old, new) pairs.
NinePairs ==
    {<<"Arg", "FromGlobal">>, <<"Arg", "Subcommand">>, <<"Arg", "Flatten">>,
     <<"Arg", "Skip">>, <<"Command", "Subcommand">>, <<"Command", "Flatten">>,
     <<"Command", "Skip">>, <<"Command", "ExternalSubcommand">>, <<"Value", "Skip">>}

\* The role names a conflict diagnostic prints.
RoleName ==
    [Arg |-> "arg", Command |-> "command", Value |-> "value", FromGlobal |-> "from_global",
     Subcommand |-> "subcommand", Flatten |-> "flatten", Skip |-> "skip",
     ExternalSubcommand |-> "external_subcommand"]

\* C1: set_kind(new) on an Item of Role old succeeds and makes new (payload
\* included) the Item's Role exactly for the nine pairs of the transition table;
\* for each of the other 55 of the 8x8 pairs it aborts with a conflict that names
\* the new and the old role and leaves the Role as it was.
C1_SetKindTable ==
    [][pc = "set_kind" =>
        IF <<item.kind.tag, new_kind.tag>> \in NinePairs
        THEN pc' = "done" /\ item'.kind = new_kind /\ err' = NoErr
        ELSE /\ pc' = "aborted"
             /\ err'.type = "conflict"
             /\ err'.a = RoleName[new_kind.tag]
             /\ err'.b = RoleName[item.kind.tag]
             /\ item'.kind = item.kind]_vars

\* C1 witness: a Command Item became ExternalSubcommand.
C1_Witness ==
    /\ pc = "done"
    /\ new_kind.tag = "ExternalSubcommand"
    /\ item.kind = new_kind
    /\ err = NoErr

\* The directives that establish a Role.
RoleDirectives == {"from_global", "subcommand", "external_subcommand", "flatten", "skip"}

\* Directive k carries an explicit value that is not a raw call.
HasExplicitValue(k) == attrs[k].value # None /\ attrs[k].value.form # "call"

\* C2: a from_global, subcommand, external_subcommand or flatten directive that
\* carries an explicit (non-call) value aborts the analysis of its site: no Item is
\* finished for a site with such a directive.
C2_RoleDirectiveWithValueAborts ==
    pc = "done" =>
        \A k \in DOMAIN attrs :
            attrs[k].name \in RoleDirectives \ {"skip"} => ~HasExplicitValue(k)

\* The namespaces of the current library, and the legacy ones.
CurrentNamespaces == {"Arg", "Command", "Value"}
LegacyNamespaces == {"Clap", "StructOpt"}

\* The namespace of the Role a site starts with.
InitialNamespace ==
    CASE site.kind \in {"args_struct", "subcommand_enum", "subcommand_variant"} -> "Command"
      [] site.kind \in {"value_enum", "value_enum_variant"} -> "Value"
      [] site.kind = "args_field" -> "Arg"

\* The namespace the specification has a Role imply.
ImpliedNamespace ==
    CASE item.kind.tag \in {"Arg", "FromGlobal"} -> "Arg"
      [] item.kind.tag \in {"Command", "Subcommand", "Flatten", "ExternalSubcommand"} ->
            "Command"
      [] item.kind.tag = "Value" -> "Value"
      [] item.kind.tag = "Skip" -> InitialNamespace

\* The directives of a current namespace other than the implied one.
Mismatched ==
    {k \in DOMAIN attrs :
        attrs[k].kind \in CurrentNamespaces /\ attrs[k].kind # ImpliedNamespace}

\* C3: once pass 1 has fixed the Role, pass 2 lets no directive of a current
\* namespace pass whose namespace is not the one the Role implies (for Skip: the
\* namespace of the Role before skip): the second loop is never beyond such a
\* directive, a construction that got past the loop has none, and the namespace
\* diagnostic is raised for the first of them in source order, wherever the
\* role-establishing directive stands, naming the implied and the declared namespace.
C3_NamespaceOfFinalRole ==
    /\ pc = "pass2" => \A k \in Mismatched : k >= idx
    /\ pc \in {"doc", "end", "done"} => Mismatched = {}
    /\ pc = "aborted" /\ err.phase \in {"doc", "end"} => Mismatched = {}
    /\ pc = "aborted" /\ err.phase = "pass2" =>
          /\ \A k \in Mismatched : k >= err.at
          /\ err.at \in Mismatched <=> err.type = "expected_attribute"
          /\ err.type = "expected_attribute" =>
                err.a = ImpliedNamespace /\ err.b = attrs[err.at].kind

\* C3 witness: a struct member is flattened by its second directive, and its first
\* directive, declared in the arg namespace, is the one rejected.
C3_Witness ==
    /\ pc = "aborted"
    /\ err.type = "expected_attribute"
    /\ err.at = 1
    /\ site.kind = "args_field"
    /\ Len(attrs) = 2
    /\ attrs[1].kind = "Arg"
    /\ attrs[2] = Attr("flatten", "Command", None)
    /\ item.kind.tag = "Flatten"

\* The number of old_attribute entries of a deprecation list.
OldAttributes(deps) == Cardinality({k \in DOMAIN deps : deps[k].id = "old_attribute"})

IsPrefix(s, t) == Len(s) <= Len(t) /\ SubSeq(t, 1, Len(s)) = s

\* C4: a directive of a legacy namespace (clap, structopt) never raises the
\* namespace diagnostic, whatever the Role; the iteration of pass 2 that handles
\* it appends exactly one old_attribute deprecation, the iteration of any other
\* directive appends none; and every step of the construction keeps the
\* deprecation list it found as a prefix of the one it leaves.
C4_LegacyNamespaceDeprecates ==
    [][/\ IsPrefix(item.deprecations, item'.deprecations)
       /\ pc = "pass2" /\ attrs[idx].kind \in LegacyNamespaces =>
             /\ err'.type # "expected_attribute"
             /\ OldAttributes(item'.deprecations) = OldAttributes(item.deprecations) + 1
       /\ pc = "pass2" /\ attrs[idx].kind \notin LegacyNamespaces =>
             OldAttributes(item'.deprecations) = OldAttributes(item.deprecations)
       /\ pc # "pass2" => item'.deprecations = item.deprecations]_vars

\* C4 witness: an Item of Role Skip is finished from two directives of legacy
\* namespaces, with one old_attribute deprecation for each.
C4_Witness ==
    /\ pc = "done"
    /\ item.kind.tag = "Skip"
    /\ Len(attrs) = 2
    /\ \A k \in DOMAIN attrs : attrs[k].kind \in LegacyNamespaces
    /\ OldAttributes(item.deprecations) = 2

\* The site has a directive named short or long.
HasFlagDirective == \E k \in DOMAIN attrs : attrs[k].name \in {"short", "long"}

\* C5: is_positional is true on the new Item and until pass 2 starts; an iteration
\* of pass 2 that registers a directive named short or long (bare, with a value or
\* as a raw call) leaves it false; no step sets it back to true; and a finished
\* Item has is_positional = true exactly when its site has no such directive.
C5_IsPositional ==
    /\ [](pc = "pass1" => item.is_positional)
    /\ [][/\ ~item.is_positional => ~item'.is_positional
          /\ pc = "pass2" /\ attrs[idx].name \in {"short", "long"} /\ pc' # "aborted" =>
                ~item'.is_positional
          /\ pc' = "done" => (item'.is_positional <=> ~HasFlagDirective)]_vars

\* C5 witness: a member with a raw-call long directive followed by another
\* directive is finished with is_positional = false.
C5_Witness ==
    /\ pc = "done"
    /\ Len(attrs) = 2
    /\ attrs[1] = Attr("long", "Arg", ACall)
    /\ attrs[2].name \notin {"short", "long"}
    /\ ~item.is_positional

\* C6: every finished Item whose Role is Flatten has an empty doc-comment method
\* list, whatever kind of site it was built from.
C6_FlattenDropsDocComment ==
    pc = "done" /\ item.kind.tag = "Flatten" => item.doc_comment = <<>>

\* The configuration calls other than help / long_help registered on the Item.
ConfiguringCalls ==
    {k \in DOMAIN item.methods : item.methods[k].name \notin {"help", "long_help"}}

\* C7: no Item of Role Flatten is finished with a configuration call other than
\* help / long_help registered on it, whatever kind of site it was built from.
C7_FlattenRejectsMethods ==
    pc = "done" /\ item.kind.tag = "Flatten" => ConfiguringCalls = {}

\* C8: no finished Item whose Role is Command, Value, Flatten or Subcommand has a
\* value_parser or action override registered, bare or explicit.
C8_NoOverrideOnRestrictedRoles ==
    pc = "done" /\ item.kind.tag \in {"Command", "Value", "Flatten", "Subcommand"} =>
        item.value_parser.tag = "None" /\ item.action.tag = "None"

\* The shapes the specification names, for the declared types.
ShapeOf ==
    [t \in FieldTypes \cup {"-"} |->
        CASE t = "Vec<T>" -> "Vec"
          [] t = "Option<T>" -> "Option"
          [] t = "Option<Option<T>>" -> "OptionOption"
          [] t = "Option<Vec<T>>" -> "OptionVec"
          [] OTHER -> "Other"]

\* The payload of a site is one the Subcommand Role accepts.
SubcommandPayloadOk ==
    /\ site.kind = "subcommand_variant" => site.fields = "Unnamed" /\ site.len = 1
    /\ ShapeOf[site.ty] \notin {"OptionOption", "OptionVec"}

\* C9: on variants and struct members, an Item of Role Subcommand is finished only
\* for a payload of exactly one unnamed field (variants) whose shape is neither
\* OptionalOptional nor OptionalList, and then the Role carries that shape; and
\* the end of the constructor rejects a Subcommand site only for an override, for
\* a configuring call on a member, or for such a payload.
C9_SubcommandPayload ==
    site.kind \in {"subcommand_variant", "args_field"} /\ item.kind.tag = "Subcommand" =>
        /\ pc = "done" => SubcommandPayloadOk /\ item.kind.ty = ShapeOf[site.ty]
        /\ pc = "aborted" /\ err.phase = "end" =>
              \/ item.value_parser.tag # "None"
              \/ item.action.tag # "None"
              \/ site.kind = "args_field" /\ ConfiguringCalls # {}
              \/ ~SubcommandPayloadOk

\* C9 witness: a variant with one unnamed Option<T> field is finished as
\* Subcommand(Option).
C9_Witness ==
    /\ pc = "done"
    /\ site.kind = "subcommand_variant"
    /\ site.ty = "Option<T>"
    /\ item.kind = KindTy("Subcommand", "Option")

\* C10: on every kind of site, no Item of Role Skip is finished when a short or
\* long directive precedes the skip directive, and a finished Item of Role Skip
\* carries the expression of its skip directive.
C10_SkipRejectsFlags ==
    pc = "done" /\ item.kind.tag = "Skip" =>
        /\ \A k \in DOMAIN attrs :
              attrs[k].name = "skip" /\ ~IsCall(attrs[k]) =>
                  /\ item.kind.expr = attrs[k].value
                  /\ \A j \in 1..(k - 1) : attrs[j].name \notin {"short", "long"}

\* The Item a raw-call directive would leave if it were only appended to the
\* Method list (the deprecation list is the business of the namespace check).
AppendedOnly(a) ==
    [item EXCEPT !.methods = Append(@, Method(a.name, a.value)),
                 !.deprecations = item'.deprecations]

\* C11 as stated: every iteration of pass 2 that gets a raw-call directive past the
\* namespace check appends (name, args) to the Method list and changes no other
\* field of the Item, whatever the directive's name.
C11_RawCallOnlyAppends ==
    [][pc = "pass2" /\ IsCall(attrs[idx]) /\ pc' # "aborted" =>
          item' = AppendedOnly(attrs[idx])]_vars

\* C11 amended: a raw-call directive past the namespace check named name or id
\* replaces the Name by Assigned(args) and is not appended; one named
\* value_parser or action is stored as the explicit override and is not appended;
\* any other is appended as (name, args), and changes nothing else but
\* is_positional, which short and long clear.  None changes a casing style, the
\* Role, the doc comment or is_enum.
C11_RawCallIsPushMethod ==
    [][pc = "pass2" /\ IsCall(attrs[idx]) /\ pc' # "aborted" =>
          LET a == attrs[idx]
              kept == [item EXCEPT !.deprecations = item'.deprecations]
          IN CASE a.name \in {"name", "id"} ->
                      item' = [kept EXCEPT !.name = [tag |-> "Assigned", v |-> a.value]]
               [] a.name = "value_parser" ->
                      item' = [kept EXCEPT !.value_parser =
                                  [tag |-> "Explicit", arg |-> a.value, at |-> 0]]
               [] a.name = "action" ->
                      item' = [kept EXCEPT !.action =
                                  [tag |-> "Explicit", arg |-> a.value, at |-> 0]]
               [] a.name \in {"short", "long"} ->
                      item' = [AppendedOnly(a) EXCEPT !.is_positional = FALSE]
               [] OTHER -> item' = AppendedOnly(a)]_vars

\* C11 witness: a member is finished from the raw calls rename_all(..) and
\* name(..): the first is a Method and left the casing style alone, the second
\* replaced the Name and is no Method.
C11_Witness ==
    /\ pc = "done"
    /\ attrs = <<Attr("rename_all", "Arg", ACall), Attr("name", "Arg", ACall)>>
    /\ item.methods = <<Method("rename_all", ACall)>>
    /\ item.casing = DEFAULT_CASING
    /\ item.name = Assigned(ACall)

\* C12: an iteration of pass 2 that handles a bare long or bare short directive
\* on an Item whose Name is Derived clears is_positional and appends one Method:
\* for long, long with the identifier cased under the Item's argument-casing
\* style; for short, short with one character, which is the first character of
\* that cased long form, whichever of the eight styles is in force.
C12_BareFlagCasesTheName ==
    [][/\ pc = "pass2" /\ pc' # "aborted"
       /\ attrs[idx].name \in {"long", "short"} /\ attrs[idx].value = None
       /\ item.name.tag = "Derived"
       => LET cased == TranslateStr(item.name.v, item.casing)
              arg == IF attrs[idx].name = "long"
                     THEN Value("str", cased)
                     ELSE Value("char", <<cased[1]>>)
          IN /\ item'.methods = Append(item.methods, Method(attrs[idx].name, arg))
             /\ ~item'.is_positional
             /\ item.casing \in CasingStyles]_vars

\* C12 witness: the member verbose under Kebab is finished from bare long and
\* bare short with the Methods long "verbose" and short 'v'.
C12_Witness ==
    /\ pc = "done"
    /\ site.ident = IdentVerbose /\ site.casing = "Kebab"
    /\ attrs = <<Attr("long", "Arg", None), Attr("short", "Arg", None)>>
    /\ item.methods = <<Method("long", Value("str", IdentVerbose)),
                        Method("short", Value("char", <<"v">>))>>
    /\ ~item.is_positional

\* The directives before the current one hold no rename_all_env.
NoEnvRenameYet == \A k \in 1..(idx - 1) : attrs[k].name # "rename_all_env"

\* C13: an iteration of pass 2 that handles a bare env directive on an Item whose
\* Name is Derived appends the Method env with the identifier cased under the
\* Item's env-casing style, which is ScreamingSnake when no rename_all_env came
\* before, and changes nothing else; one that handles rename_all sets the
\* argument-casing style to the style its literal names and changes nothing else
\* (env-casing included); one that handles rename_all_env sets the env-casing
\* style and changes nothing else (argument-casing included).
C13_EnvCasingIsIndependent ==
    [][pc = "pass2" /\ pc' # "aborted" /\ ~IsCall(attrs[idx]) =>
          LET a == attrs[idx] IN
          /\ a.name = "env" /\ a.value = None /\ item.name.tag = "Derived" =>
                /\ item' = [item EXCEPT !.methods = Append(@,
                       Method("env", Value("str", TranslateStr(item.name.v, item.env_casing))))]
                /\ NoEnvRenameYet => item.env_casing = "ScreamingSnake"
          /\ a.name = "rename_all" =>
                /\ item' = [item EXCEPT !.casing = FromLit(a.value.text)]
                /\ item'.casing \in CasingStyles
          /\ a.name = "rename_all_env" =>
                /\ item' = [item EXCEPT !.env_casing = FromLit(a.value.text)]
                /\ item'.env_casing \in CasingStyles]_vars

\* C13 witness: the member RunFast is finished from rename_all = "camel" and a
\* bare env with the Method env "RUN_FAST", the argument-casing style Camel and
\* the env-casing style still ScreamingSnake.
C13_Witness ==
    /\ pc = "done"
    /\ site.ident = IdentRunFast
    /\ attrs = <<Attr("rename_all", "Arg", LitCamel), Attr("env", "Arg", None)>>
    /\ item.methods = <<Method("env", Value("str", <<"R", "U", "N", "_", "F", "A", "S", "T">>))>>
    /\ item.casing = "Camel"
    /\ item.env_casing = "ScreamingSnake"

\* C14: an iteration of pass 2 that handles a bare value_parser (bare action)
\* directive stores the implicit marker in the value_parser (action) slot and
\* appends exactly one deprecation, with id bare_value_parser (bare_action); one
\* that handles the directive with an explicit value stores that value as the
\* explicit override and appends no deprecation; neither touches the Method list
\* or any other field.
C14_OverrideDirectives ==
    [][pc = "pass2" /\ pc' # "aborted" /\ attrs[idx].name \in {"value_parser", "action"} =>
          LET a == attrs[idx]
              marker == [tag |-> "Implicit", arg |-> None, at |-> idx]
              given == [tag |-> "Explicit", arg |-> a.value, at |-> 0]
              entry == [id |-> "bare_" \o a.name, at |-> idx, old |-> "", new |-> ""]
          IN /\ item'.methods = item.methods
             /\ a.value = None =>
                   item' = [item EXCEPT ![a.name] = marker,
                                        !.deprecations = Append(@, entry)]
             /\ a.value # None =>
                   item' = [item EXCEPT ![a.name] = given]]_vars

\* C14 witness: a member is finished from a bare value_parser and action = e with
\* the implicit value_parser marker, the explicit action e, the one deprecation
\* bare_value_parser and an empty Method list.
C14_Witness ==
    /\ pc = "done"
    /\ attrs = <<Attr("value_parser", "Arg", None), Attr("action", "Arg", AnExpr)>>
    /\ item.value_parser = Implicit(1)
    /\ item.action = Explicit(AnExpr)
    /\ item.deprecations = <<Deprecation("bare_value_parser", 1)>>
    /\ item.methods = <<>>

\* The build-metadata variable of each of the three metadata directives.
MetadataVar ==
    [n \in {"about", "author", "version"} |->
        CASE n = "about" -> "CARGO_PKG_DESCRIPTION"
          [] n = "author" -> "CARGO_PKG_AUTHORS"
          [] n = "version" -> "CARGO_PKG_VERSION"]

\* The current directive of pass 2 is a bare about, author or version that the
\* namespace check lets through.
BareMetadataDirective ==
    /\ pc = "pass2"
    /\ attrs[idx].name \in DOMAIN MetadataVar
    /\ attrs[idx].value = None
    /\ err'.type # "expected_attribute"

\* The Method a metadata directive registers for the string val: the string
\* itself, passed through process_author_str for author.
MetadataMethod(n, val) ==
    [name |-> n,
     args |-> Value("str", IF n = "author" THEN process_author_str(val) ELSE val)]

\* C15 as stated: an iteration of pass 2 that handles a bare about, author or
\* version directive either aborts the analysis or appends the Method carrying
\* the metadata string; it never completes with the Method list as it was.
C15_MetadataOrAbort ==
    [][BareMetadataDirective =>
          LET a == attrs[idx]
              val == site.env[MetadataVar[a.name]]
          IN /\ val = Unset => pc' = "aborted"
             /\ pc' # "aborted" =>
                   item'.methods = Append(item.methods, MetadataMethod(a.name, val))]_vars

\* C15 amended: such an iteration aborts with the cargo diagnostic exactly when
\* the variable is unset; when the variable is set and not empty it appends the
\* Method carrying the string and changes nothing else; when the variable is set
\* but empty it completes without an error and leaves the Item as it was.
C15_MetadataUnsetAborts ==
    [][BareMetadataDirective =>
          LET a == attrs[idx]
              val == site.env[MetadataVar[a.name]]
          IN /\ pc' = "aborted" <=> val = Unset
             /\ pc' = "aborted" =>
                   err'.type = "cannot_derive_from_cargo_toml" /\ err'.b = MetadataVar[a.name]
             /\ val = <<>> => item' = item
             /\ val \notin {Unset, <<>>} =>
                   item' = [item EXCEPT !.methods = Append(@, MetadataMethod(a.name, val))]]_vars

\* C15 witness: a container whose authors variable is empty and whose version is
\* set is finished from bare author and bare version with the version Method alone.
C15_Witness ==
    /\ pc = "done"
    /\ site.env.CARGO_PKG_AUTHORS = <<>>
    /\ site.env.CARGO_PKG_VERSION = <<"1">>
    /\ attrs = <<Attr("author", "Command", None), Attr("version", "Command", None)>>
    /\ item.methods = <<Method("version", Value("str", <<"1">>))>>

\* The nesting depth after each prefix of an authors string: the number of '<'
\* seen minus the number of '>' that closed one.
AngleDepth(s) ==
    LET d[k \in 0..Len(s)] ==
            IF k = 0 THEN 0
            ELSE IF s[k] = "<" THEN d[k - 1] + 1
            ELSE IF s[k] = ">" /\ d[k - 1] > 0 THEN d[k - 1] - 1
            ELSE d[k - 1]
    IN d

\* The authors string with every ':' at depth zero replaced by ", ".
SeparatorsRewritten(s) ==
    LET depth == AngleDepth(s)
        r[k \in 0..Len(s)] ==
            IF k = 0 THEN <<>>
            ELSE r[k - 1] \o (IF s[k] = ":" /\ depth[k - 1] = 0 THEN <<",", " ">> ELSE <<s[k]>>)
    IN r[Len(s)]

\* C16: whenever a bare author directive has been handled for a non-empty authors
\* string, its Method carries the string with each ':' rewritten to ", " exactly
\* where the nesting depth before it is zero and every other character copied in
\* order; the depth is never negative, and a '>' met at depth zero leaves it zero.
C16_AuthorSeparators ==
    LET s == site.env.CARGO_PKG_AUTHORS
        depth == AngleDepth(s)
    IN pc \in {"doc", "end", "done"} /\ s # <<>> =>
          /\ item.methods = <<[name |-> "author",
                               args |-> Value("str", SeparatorsRewritten(s))]>>
          /\ \A k \in 1..Len(s) :
                /\ depth[k] >= 0
                /\ s[k] = ">" /\ depth[k - 1] = 0 => depth[k] = 0

\* C16 witness: the authors string "a<x:y>:b" has been registered as "a<x:y>, b".
C16_Witness ==
    /\ pc = "done"
    /\ site.env.CARGO_PKG_AUTHORS = AuthorExample
    /\ item.methods = <<Method("author",
                               Value("str", <<"a", "<", "x", ":", "y", ">", ",", " ", "b">>))>>

\* The current directive of pass 2 is a typed-default directive, bare or with a
\* value, that the namespace check lets through.
TypedDefaultDirective ==
    /\ pc = "pass2"
    /\ attrs[idx].name \in TypedDefaults
    /\ ~IsCall(attrs[idx])
    /\ err'.type # "expected_attribute"

PluralDefaults == {"default_values_t", "default_values_os_t"}

\* C17: an iteration of pass 2 that handles a typed-default directive aborts on
\* every site that is not a struct member (containers and variants have no
\* declared type), and for the plural forms on every member whose declared shape
\* is not List; it aborts in no other case but that of a plural form without a
\* value.
C17_TypedDefaultPrerequisite ==
    [][TypedDefaultDirective =>
          LET a == attrs[idx]
              untyped == site.kind # "args_field"
              not_list == a.name \in PluralDefaults /\ ShapeOf[site.ty] # "Vec"
          IN /\ untyped => pc' = "aborted" /\ err'.type = "only_on_field_level"
             /\ ~untyped /\ not_list =>
                   pc' = "aborted" /\ err'.type \in {"only_on_vec_types", "requires_a_value"}
             /\ pc' = "aborted" =>
                   untyped \/ not_list \/ (a.name \in PluralDefaults /\ a.value = None)]_vars

\* C17 witness: default_values_t = e on a member of type Option<Vec<T>> aborted
\* pass 2 with the Vec diagnostic.
C17_Witness ==
    /\ pc = "aborted"
    /\ site.kind = "args_field" /\ site.ty = "Option<Vec<T>>"
    /\ attrs = <<Attr("default_values_t", "Arg", AnExpr)>>
    /\ err.type = "only_on_vec_types" /\ err.phase = "pass2"

\* The site has a singular typed-default directive, bare or with a value.
HasSingularTypedDefault ==
    \E k \in DOMAIN attrs :
        attrs[k].name \in {"default_value_t", "default_value_os_t"} /\ ~IsCall(attrs[k])

\* C18: no Item is finished for a struct member of declared shape Optional that
\* has a default_value_t or default_value_os_t directive.
C18_OptionalRejectsTypedDefault ==
    pc = "done" /\ site.kind = "args_field" /\ ShapeOf[site.ty] = "Option" =>
        ~HasSingularTypedDefault

\* The Method list of the Item grows by one Method of the given name, and no
\* other field of the Item changes.
AppendsMethodNamed(n) ==
    /\ Len(item'.methods) = Len(item.methods) + 1
    /\ SubSeq(item'.methods, 1, Len(item.methods)) = item.methods
    /\ item'.methods[Len(item'.methods)].name = n
    /\ item' = [item EXCEPT !.methods = item'.methods]

\* C19 as stated: an iteration of pass 2 that completes a typed-default
\* directive, singular or plural, appends one Method named default_value.
C19_TypedDefaultSingularName ==
    [][TypedDefaultDirective /\ pc' # "aborted" => AppendsMethodNamed("default_value")]_vars

\* C19 amended: an iteration of pass 2 that completes default_value_t or
\* default_value_os_t appends one Method named default_value; one that completes
\* default_values_t or default_values_os_t appends one Method named
\* default_values; nothing else of the Item changes.
C19_TypedDefaultMethodName ==
    [][TypedDefaultDirective /\ pc' # "aborted" =>
          IF attrs[idx].name \in PluralDefaults
          THEN AppendsMethodNamed("default_values")
          ELSE AppendsMethodNamed("default_value")]_vars

\* C19 witness: a member of type Vec<T> is finished from default_value_os_t and
\* default_values_t = e with the Methods default_value and default_values.
C19_Witness ==
    /\ pc = "done"
    /\ site.ty = "Vec<T>"
    /\ attrs = <<Attr("default_value_os_t", "Arg", None), Attr("default_values_t", "Arg", AnExpr)>>
    /\ Len(item.methods) = 2
    /\ item.methods[1].name = "default_value"
    /\ item.methods[2].name = "default_values"

SlotNames == {"next_display_order", "next_help_heading"}

\* The names of the Methods of a sequence.
MethodNames(methods) == {methods[k].name : k \in DOMAIN methods}

\* C20: an iteration of pass 2 that handles next_display_order or
\* next_help_heading with a value stores (name, value) in the slot of that name
\* and changes nothing else, the Method list included; without a value it aborts.
\* At every point of the construction neither final_top_level_methods nor
\* field_methods holds a Method of either name, while next_display_order(),
\* next_help_heading() and initial_top_level_methods hold exactly the slots.
C20_NextSlotsStayApart ==
    /\ [][/\ pc = "pass2" /\ attrs[idx].name \in SlotNames
          /\ ~IsCall(attrs[idx]) /\ err'.type # "expected_attribute"
          => LET a == attrs[idx] IN
             /\ a.value = None => pc' = "aborted" /\ err'.type = "requires_a_value"
             /\ a.value # None =>
                   /\ pc' # "aborted"
                   /\ item' = [item EXCEPT ![a.name] = [name |-> a.name, args |-> a.value]]
                   /\ a.name = "next_display_order" => NextDisplayOrder(item') = <<item'[a.name]>>
                   /\ a.name = "next_help_heading" => NextHelpHeading(item') = <<item'[a.name]>>
                   /\ \E k \in DOMAIN InitialTopLevelMethods(item') :
                         InitialTopLevelMethods(item')[k] = item'[a.name]]_vars
    /\ [](/\ MethodNames(FinalTopLevelMethods(item)) \cap SlotNames = {}
          /\ \A b \in BOOLEAN : MethodNames(FieldMethods(item, b)) \cap SlotNames = {}
          /\ InitialTopLevelMethods(item) = NextDisplayOrder(item) \o NextHelpHeading(item))

\* C20 witness: a container with a doc comment is finished from
\* next_help_heading = e and help = "x": the heading sits in its slot and in
\* initial_top_level_methods, and final_top_level_methods holds the doc comment
\* and help alone.
C20_Witness ==
    /\ pc = "done"
    /\ site.kind = "args_struct"
    /\ attrs = <<Attr("next_help_heading", "Command", AnExpr), Attr("help", "Command", ALit)>>
    /\ item.next_help_heading = Method("next_help_heading", AnExpr)
    /\ InitialTopLevelMethods(item) = <<Method("next_help_heading", AnExpr)>>
    /\ MethodNames(FinalTopLevelMethods(item)) = {"about", "long_about", "help"}

\* The number of directives pass 2 has handled so far.
Handled ==
    CASE pc = "pass1" -> 0
      [] pc = "pass2" -> idx - 1
      [] pc = "aborted" -> IF err.phase = "pass2" THEN idx - 1
                           ELSE IF err.phase = "pass1" THEN 0 ELSE Len(attrs)
      [] OTHER -> Len(attrs)

\* The styles the container hands to the constructor of the site; a container
\* itself starts from Kebab and ScreamingSnake.
HandedDown ==
    IF site.kind \in ContainerKinds
    THEN [rename_all |-> "Kebab", rename_all_env |-> "ScreamingSnake"]
    ELSE [rename_all |-> site.casing, rename_all_env |-> site.env_casing]

\* The style in effect after the first h directives of the site: the one the
\* last directive named n (rename_all or rename_all_env) among them asks for, or
\* the style handed down.
StyleAfter(n, h) ==
    LET own == {k \in 1..h : attrs[k].name = n /\ ~IsCall(attrs[k])}
    IN IF own = {} THEN HandedDown[n]
       ELSE FromLit(attrs[CHOOSE k \in own : \A j \in own : j <= k].value.text)

\* C21: at every point of a construction that has not aborted, the Item's
\* argument-casing and env-casing styles are those handed down by the container
\* (Kebab and ScreamingSnake for a container) unless a rename_all /
\* rename_all_env directive of the Item itself has been handled, and then those
\* of the last such directive; and cased_name() of a finished Item with a derived
\* name is the identifier under the final argument-casing style.
C21_InheritedCasing ==
    pc # "aborted" =>
        /\ item.casing = StyleAfter("rename_all", Handled)
        /\ item.env_casing = StyleAfter("rename_all_env", Handled)
        /\ pc = "done" /\ item.name.tag = "Derived" =>
              CasedName(item) =
                  Value("str", TranslateStr(site.ident, StyleAfter("rename_all", Len(attrs))))

\* C21 witness: the variant RunFast, handed Snake and with no directive, is
\* finished with cased_name() "run_fast".
C21_Witness ==
    /\ pc = "done"
    /\ site.kind = "subcommand_variant" /\ site.ident = IdentRunFast
    /\ site.casing = "Snake"
    /\ attrs = <<>>
    /\ CasedName(item) = Value("str", <<"r", "u", "n", "_", "f", "a", "s", "t">>)

\* C22: an iteration of pass 2 that handles a name or id directive with a value
\* makes the Name Assigned(value) and changes nothing else,
\* the Method list included; and whenever the Name is Assigned, id(),
\* cased_name() and value_name() are the assigned expression itself, whatever
\* the argument-casing style, and a bare long or env directive handled then
\* registers the assigned expression itself.
C22_AssignedNameSkipsCasing ==
    /\ [](item.name.tag = "Assigned" =>
             /\ item.casing \in CasingStyles
             /\ Id(item) = item.name.v
             /\ CasedName(item) = item.name.v
             /\ ValueName(item) = item.name.v)
    /\ [][pc = "pass2" /\ pc' # "aborted" =>
             LET a == attrs[idx] IN
             /\ a.name \in {"name", "id"} =>
                   item' = [item EXCEPT !.name = [tag |-> "Assigned", v |-> a.value]]
             /\ a.name \in {"long", "env"} /\ a.value = None /\ item.name.tag = "Assigned" =>
                   item'.methods = Append(item.methods, [name |-> a.name, args |-> item.name.v])]_vars

\* C22 witness: the variant RunFast, handed Pascal, is finished from name = "x"
\* and a bare long: the Method long and cased_name() are the literal "x" and
\* name is no Method.
C22_Witness ==
    /\ pc = "done"
    /\ site.kind = "subcommand_variant" /\ site.casing = "Pascal"
    /\ attrs = <<Attr("name", "Command", ALit), Attr("long", "Command", None)>>
    /\ item.methods = <<Method("long", ALit)>>
    /\ CasedName(item) = ALit
    /\ item.name = Assigned(ALit)

\* The repetition strategy the specification infers for each declared type.
InferredAction ==
    [t \in InferTypes |->
        CASE t \in {"Vec<T>", "Vec<bool>", "Option<Vec<T>>"} -> "Append"
          [] t \in {"Option<T>", "Option<bool>", "Option<Option<T>>"} -> "Set"
          [] t = "bool" -> "SetTrue"
          [] OTHER -> "Set"]

\* C23: for a finished member without an action directive, action(field_type) is
\* the call action(Append) for shape List or OptionalList, action(Set) for shape
\* Optional or OptionalOptional (Option<bool> included), action(SetTrue) for a
\* plain bool and action(Set) for every other type.
C23_InferredAction ==
    /\ pc = "done"
    /\ site.kind = "args_field"
    /\ \A k \in DOMAIN attrs : attrs[k].name # "action"
    => ItemAction(item, site.ty) =
           [name |-> "action", args |-> Value("ArgAction", <<InferredAction[site.ty]>>)]

\* C23 witness: a member of type Option<bool> with a bare long is finished and
\* its inferred action is Set.
C23_Witness ==
    /\ pc = "done"
    /\ site.kind = "args_field" /\ site.ty = "Option<bool>"
    /\ attrs = <<Attr("long", "Arg", None)>>
    /\ ItemAction(item, site.ty) = Method("action", Value("ArgAction", <<"Set">>))

\* The type value_parser!(..) is inferred for: the declared type with one level of
\* Option / Vec (or Option<Option>, Option<Vec>) taken off.
InferredParserType ==
    [t \in InferTypes |-> IF t \in {"bool", "Option<bool>", "Vec<bool>"} THEN "bool" ELSE "T"]

\* The last directive of the site with the given name, or 0.
LastNamed(n) ==
    LET own == {k \in DOMAIN attrs : attrs[k].name = n}
    IN IF own = {} THEN 0 ELSE CHOOSE k \in own : \A j \in own : j <= k

\* C24: on a finished member, action(t) and value_parser(t) asked for any type t
\* return the explicitly registered override verbatim when the directive in
\* force carries a value, and the default inferred for t when the site has no
\* such directive or the one in force is bare; both are functions of the Item
\* and the type alone and leave the Item as it is.
C24_OverrideOrInferred ==
    pc = "done" /\ site.kind = "args_field" =>
        \A t \in InferTypes :
            LET a == LastNamed("action")
                v == LastNamed("value_parser")
            IN /\ ItemAction(item, t) =
                     IF a # 0 /\ attrs[a].value # None
                     THEN [name |-> "action", args |-> attrs[a].value]
                     ELSE [name |-> "action",
                           args |-> Value("ArgAction", <<InferredAction[t]>>)]
               /\ ItemValueParser(item, t) =
                     IF v # 0 /\ attrs[v].value # None
                     THEN [name |-> "value_parser", args |-> attrs[v].value]
                     ELSE [name |-> "value_parser",
                           args |-> Value("value_parser!", <<InferredParserType[t]>>)]

\* C24 witness: a Vec<T> member is finished from action = e and a bare
\* value_parser: action() is the call action(e), not Append, and value_parser()
\* is the default for T.
C24_Witness ==
    /\ pc = "done"
    /\ site.kind = "args_field" /\ site.ty = "Vec<T>"
    /\ attrs = <<Attr("action", "Arg", AnExpr), Attr("value_parser", "Arg", None)>>
    /\ ItemAction(item, site.ty) = Method("action", AnExpr)
    /\ ItemValueParser(item, site.ty) = DefaultValueParser("T")

\* The directives of the site that are forwarded to the Method list as they
\* stand: those with a value whose name push_method does not divert.
IsForwarded(a) ==
    a.value # None /\ a.name \notin {"name", "id", "value_parser", "action"}

\* The calls forwarded by the site, in source order.
ForwardedCalls ==
    LET sel == SelectSeq(attrs, IsForwarded)
    IN [k \in DOMAIN sel |-> [name |-> sel[k].name, args |-> sel[k].value]]

\* C25: every step of the construction keeps the Method list it found as a
\* prefix of the one it leaves and adds at most one Method; a step outside pass 2
\* adds none; the Method a pass-2 iteration adds comes from the directive it
\* handles; and the Method list of a finished Item is the forwarded calls of the
\* site in source order.
C25_MethodsInSourceOrder ==
    /\ [][/\ IsPrefix(item.methods, item'.methods)
          /\ Len(item'.methods) <= Len(item.methods) + 1
          /\ pc # "pass2" => item'.methods = item.methods
          /\ pc = "pass2" /\ Len(item'.methods) > Len(item.methods) =>
                item'.methods[Len(item'.methods)].name = attrs[idx].name]_vars
    /\ [](pc = "done" => item.methods = ForwardedCalls)

\* C25 witness: a member is finished from the raw call long(..) and help = "x"
\* with the Methods long and help, in that order.
C25_Witness ==
    /\ pc = "done"
    /\ attrs = <<Attr("long", "Arg", ACall), Attr("help", "Arg", ALit)>>
    /\ item.methods = <<Method("long", ACall), Method("help", ALit)>>

\* A Method under any name but long_help.
NotLongHelpMethod(mth) == mth.name # "long_help"

\* The sites field_methods is called for: members and value-enum variants.
FieldLikeSite == site.kind \in {"args_field", "value_enum_variant"}

\* C26 as stated: for a finished member or value-enum variant,
\* field_methods(true) is the doc-comment Methods followed by the forwarded calls
\* in source order, and field_methods(false) holds no Method named long_help.
C26_NoLongHelpEmitted ==
    pc = "done" /\ FieldLikeSite =>
        /\ FieldMethods(item, TRUE) = item.doc_comment \o ForwardedCalls
        /\ "long_help" \notin MethodNames(FieldMethods(item, FALSE))

\* C26 amended: for a finished member or value-enum variant,
\* field_methods(true) is the doc-comment Methods followed by the forwarded calls
\* in source order, and field_methods(false) is the same list without the
\* long_help Method of the doc comment: a long_help directive of the site is
\* still emitted, in its place among the forwarded calls.
C26_DocLongHelpFiltered ==
    pc = "done" /\ FieldLikeSite =>
        /\ (item.doc_comment = <<>>) <=> (site.doc = <<>>)
        /\ FieldMethods(item, TRUE) = item.doc_comment \o ForwardedCalls
        /\ FieldMethods(item, FALSE) =
              SelectSeq(item.doc_comment, NotLongHelpMethod) \o ForwardedCalls
        /\ "long_help" \notin MethodNames(SelectSeq(item.doc_comment, NotLongHelpMethod))

\* C26 witness: a value-enum variant with a doc comment of two paragraphs and the
\* directive help = "x" is finished; field_methods(true) is help, long_help, help
\* and field_methods(false) is help, help.
C26_Witness ==
    /\ pc = "done"
    /\ site.kind = "value_enum_variant" /\ site.doc = <<"d", "", "e">>
    /\ attrs = <<Attr("help", "Value", ALit)>>
    /\ Len(FieldMethods(item, TRUE)) = 3
    /\ FieldMethods(item, TRUE)[2].name = "long_help"
    /\ FieldMethods(item, FALSE) =
          <<Method("help", Value("doc", <<"d">>)), Method("help", ALit)>>

\* The current directive of pass 2 is a value_parser directive that the
\* namespace check lets through.
ValueParserDirective ==
    /\ pc = "pass2"
    /\ attrs[idx].name = "value_parser"
    /\ err'.type # "expected_attribute"

\* C27 as stated: an iteration of pass 2 that handles a value_parser directive
\* on an Item that already holds an explicit value_parser raises no error and
\* leaves that first registration in the slot.
C27_FirstValueParserWins ==
    [][ValueParserDirective /\ item.value_parser.tag = "Explicit" =>
          pc' # "aborted" /\ item'.value_parser = item.value_parser]_vars

\* C27 amended: an iteration of pass 2 that handles a value_parser directive
\* raises no error and puts its own registration in the slot, whatever the slot
\* held: the explicit value of the directive, or the implicit marker for a bare
\* one; so a finished member keeps the registration of its last value_parser
\* directive.
C27_LastValueParserWins ==
    /\ [][ValueParserDirective =>
             /\ pc' # "aborted"
             /\ item'.value_parser =
                   IF attrs[idx].value = None
                   THEN [tag |-> "Implicit", arg |-> None, at |-> idx]
                   ELSE [tag |-> "Explicit", arg |-> attrs[idx].value, at |-> 0]]_vars
    /\ [](pc = "done" /\ site.kind = "args_field" /\ LastNamed("value_parser") # 0 =>
             LET last == attrs[LastNamed("value_parser")]
             IN item.value_parser.arg = last.value
                /\ (item.value_parser.tag = "Explicit" <=> last.value # None))

\* C27 witness: a member is finished from value_parser = e and value_parser = "x"
\* with the second registration in the slot.
C27_Witness ==
    /\ pc = "done"
    /\ attrs = <<Attr("value_parser", "Arg", AnExpr), Attr("value_parser", "Arg", ALit)>>
    /\ item.value_parser = Explicit(ALit)

\* The Name in effect after the first h directives of the site: the value of the
\* last name or id directive among them, or the identifier of the site.
NameAfter(h) ==
    LET own == {k \in 1..h : attrs[k].name \in {"name", "id"} /\ attrs[k].value # None}
    IN IF own = {} THEN [tag |-> "Derived", v |-> site.ident]
       ELSE [tag |-> "Assigned", v |-> attrs[CHOOSE k \in own : \A j \in own : j <= k].value]

\* The Method the bare short, long or env directive number k registers, from the
\* Name and the style in effect before it.
SynthesizedAt(k) ==
    LET n == attrs[k].name IN
    [name |-> n,
     args |-> CASE n = "long" -> Translate(NameAfter(k - 1), StyleAfter("rename_all", k - 1))
                [] n = "short" ->
                       TranslateChar(NameAfter(k - 1), StyleAfter("rename_all", k - 1))
                [] n = "env" ->
                       Translate(NameAfter(k - 1), StyleAfter("rename_all_env", k - 1))]

\* The numbers of the bare short, long and env directives of the site, in order.
BareSynthesized ==
    LET IsBare(k) == attrs[k].name \in {"short", "long", "env"} /\ attrs[k].value = None
    IN SelectSeq([k \in DOMAIN attrs |-> k], IsBare)

\* C28: the Methods of a finished Item registered by bare short, long and env
\* directives are those synthesized from the Name and the casing style in effect
\* at the position of each directive, in source order: no rename_all,
\* rename_all_env, name or id directive that comes later changes them, and no
\* step changes a Method once it is registered.
C28_SynthesizedInPlace ==
    /\ [](pc = "done" =>
             item.methods = [j \in DOMAIN BareSynthesized |-> SynthesizedAt(BareSynthesized[j])])
    /\ [][IsPrefix(item.methods, item'.methods)]_vars

\* C28 witness: the member RunFast, handed Snake, is finished from a bare long
\* followed by rename_all = "camel": the Method long is "run_fast" while
\* cased_name() is "runFast".
C28_Witness ==
    /\ pc = "done"
    /\ site.kind = "args_field" /\ site.casing = "Snake"
    /\ attrs = <<Attr("long", "Arg", None), Attr("rename_all", "Arg", LitCamel)>>
    /\ item.methods = <<Method("long", Value("str", <<"r", "u", "n", "_", "f", "a", "s", "t">>))>>
    /\ CasedName(item) = Value("str", <<"r", "u", "n", "F", "a", "s", "t">>)

\* The Role tag each role directive establishes.
RoleOf ==
    [from_global |-> "FromGlobal", subcommand |-> "Subcommand", flatten |-> "Flatten",
     skip |-> "Skip", external_subcommand |-> "ExternalSubcommand"]

\* The directives of the site that establish a Role in pass 1: the value-less
\* role directives, and skip with its expression.
Establishing ==
    {k \in DOMAIN attrs :
        /\ attrs[k].name \in RoleDirectives
        /\ \/ attrs[k].value = None
           \/ attrs[k].name = "skip" /\ attrs[k].value.form # "call"}

\* C29: once pass 1 has moved the Role of a site away from its initial Arg, Command
\* or Value, every further value-less from_global, subcommand, external_subcommand,
\* flatten or skip directive, a repetition of the same one included, aborts with
\* the conflict of the directive and the Role held, leaving the Item as it was; so
\* a site that gets past pass 1 has at most one role-establishing directive, and
\* its Role tag is the initial one or the one that directive set.
C29_OneRoleDirective ==
    /\ [][/\ pc = "pass1"
          /\ item.kind.tag # InitialNamespace
          /\ attrs[idx].name \in RoleDirectives
          /\ attrs[idx].value = None
          => /\ pc' = "aborted"
             /\ err'.type = "conflict"
             /\ err'.a = attrs[idx].name
             /\ err'.b = RoleName[item.kind.tag]
             /\ item' = item]_vars
    /\ [](pc \in {"pass2", "doc", "end", "done"} =>
             /\ Cardinality(Establishing) <= 1
             /\ item.kind.tag = IF Establishing = {} THEN InitialNamespace
                                ELSE RoleOf[attrs[CHOOSE k \in Establishing : TRUE].name])

\* C29 witness: a container flattened by its first directive is rejected at the
\* second flatten.
C29_Witness ==
    /\ pc = "aborted"
    /\ err.phase = "pass1"
    /\ err.type = "conflict"
    /\ err.at = 2
    /\ attrs = <<Attr("flatten", "Command", None), Attr("flatten", "Command", None)>>
    /\ item.kind.tag = "Flatten"

\* The directives pass 1 rejects, were it to reach them: from_global with a value,
\* a role directive after another one, and a role directive whose Role the initial
\* Role of the site cannot change into.
Pass1Offenders ==
    {k \in DOMAIN attrs :
        \/ attrs[k].name = "from_global" /\ HasExplicitValue(k)
        \/ /\ k \in Establishing
           /\ \/ \E j \in Establishing : j < k
              \/ <<InitialNamespace, RoleOf[attrs[k].name]>> \notin NinePairs}

\* Nothing of pass 2 is on the Item: no Method, no deprecation, and the casing
\* styles are the ones handed down.
NothingRecorded ==
    /\ item.methods = <<>>
    /\ item.deprecations = <<>>
    /\ item.casing = HandedDown.rename_all
    /\ item.env_casing = HandedDown.rename_all_env

\* C30: pass 1 runs over the whole list before pass 2 starts. A site with a
\* directive pass 1 rejects never enters pass 2, whatever pass 2 would reject
\* and wherever that stands: its analysis aborts in pass 1 at the first such
\* directive, with the conflict or the does-not-accept-a-value diagnostic, and
\* as long as pass 1 runs and when it aborts, no Method, deprecation or casing
\* change is recorded.
C30_Pass1BeforePass2 ==
    /\ Pass1Offenders # {} =>
          /\ pc \in {"pass1", "aborted"}
          /\ pc = "aborted" =>
                /\ err.phase = "pass1"
                /\ err.at \in Pass1Offenders /\ \A k \in Pass1Offenders : err.at <= k
                /\ err.type = IF attrs[err.at].name = "from_global" /\ HasExplicitValue(err.at)
                              THEN "does_not_accept_a_value" ELSE "conflict"
    /\ pc = "pass1" \/ (pc = "aborted" /\ err.phase = "pass1") => NothingRecorded

\* C30 witness: a struct member whose first directive names a casing style that
\* does not exist and whose second directive is external_subcommand: the conflict
\* of the second directive is the diagnostic.
C30_Witness ==
    /\ pc = "aborted"
    /\ site.kind = "args_field"
    /\ attrs = <<Attr("rename_all", "Arg", ALit), Attr("external_subcommand", "Command", None)>>
    /\ err.type = "conflict" /\ err.at = 2
    /\ NothingRecorded

\* A short or long directive, in any form, is among the directives of the site.
ShortOrLong == \E k \in DOMAIN attrs : attrs[k].name \in {"short", "long"}

\* A struct member whose Role is Arg stands at the end of its constructor.
ArgMemberAtEnd == pc = "end" /\ site.kind = "args_field" /\ item.kind.tag = "Arg"

\* C31: a struct member whose final Role is Arg and whose declared shape is
\* OptionOption or OptionVec is accepted only with a short or long directive on
\* it: if none was registered (is_positional is still true after pass 2) the end
\* of the constructor aborts with the meaningless-for-positional diagnostic. With
\* any other shape the member is never rejected for being positional: the end of
\* the constructor then aborts only for a default_value on Option.
C31_PositionalOptionalShapes ==
    /\ [](pc \in {"doc", "end"} /\ site.kind = "args_field" =>
             (item.is_positional <=> ~ShortOrLong))
    /\ [][ArgMemberAtEnd /\ ShapeOf[site.ty] \in {"OptionOption", "OptionVec"} =>
             IF ShortOrLong
             THEN pc' = "done"
             ELSE pc' = "aborted" /\ err'.type = "meaningless_for_positional"]_vars
    /\ [][ArgMemberAtEnd /\ ShapeOf[site.ty] \notin {"OptionOption", "OptionVec"} =>
             IF ShapeOf[site.ty] = "Option"
                /\ \E k \in DOMAIN item.methods : item.methods[k].name = "default_value"
             THEN pc' = "aborted" /\ err'.type = "meaningless_for_option"
             ELSE pc' = "done"]_vars

\* C31 witness: a member of type Option<Vec<T>> with a bare env directive only is
\* rejected as positional.
C31_Witness ==
    /\ pc = "aborted"
    /\ err.phase = "end"
    /\ err.type = "meaningless_for_positional"
    /\ site.ty = "Option<Vec<T>>"
    /\ attrs = <<Attr("env", "Arg", None)>>
    /\ item.is_positional

\* The directives of the site that register a configuration call other than help
\* and long_help.
ExplicitCalls ==
    {k \in DOMAIN attrs : attrs[k].name \in {"long", "short", "env", "default_value", "about"}}

\* A struct member whose Role is Subcommand or Skip.
SubcommandOrSkipMember ==
    site.kind = "args_field" /\ item.kind.tag \in {"Subcommand", "Skip"}

\* C32: a struct member whose final Role is Subcommand or Skip aborts construction
\* if a configuration call other than help and long_help is registered on it: the
\* end of the constructor aborts whenever the Method list holds such a call, so no
\* such member is finished with a directive of such a call before or after its
\* subcommand or skip directive.
C32_NoCallsOnSubcommandOrSkip ==
    /\ [][/\ pc = "end"
          /\ SubcommandOrSkipMember
          /\ \E k \in DOMAIN item.methods : item.methods[k].name \notin {"help", "long_help"}
          => /\ pc' = "aborted"
             /\ err'.type = IF item.kind.tag = "Skip" THEN "not_allowed_for_skipped_fields"
                             ELSE "not_allowed_for_subcommand"
             /\ err'.a = "methods"]_vars
    /\ [](pc = "done" /\ SubcommandOrSkipMember =>
             /\ ExplicitCalls = {}
             /\ \A k \in DOMAIN item.methods : item.methods[k].name \in {"help", "long_help"})

\* C32 witness: a member with a bare long before its skip directive is rejected
\* at the end of the constructor.
C32_Witness ==
    /\ pc = "aborted"
    /\ err.phase = "end"
    /\ err.type = "not_allowed_for_skipped_fields"
    /\ site.kind = "args_field"
    /\ attrs = <<Attr("long", "Arg", None), Attr("skip", "Arg", None)>>
    /\ item.kind.tag = "Skip"

\* A value_enum directive stands somewhere in the directive list of the site.
ValueEnumAnywhere == \E k \in DOMAIN attrs : attrs[k].name = "value_enum"

\* The conversions through the variant-name lookup of a closed value set.
VariantNameForms == {"value_enum_get_name", "iter_value_enum_get_name"}

\* C33: whether a typed-default directive stringifies through the variant-name
\* lookup or through the generic conversion depends only on a value_enum directive
\* standing anywhere in the list of the site, before or after it: an iteration of
\* pass 2 that completes a typed-default directive appends a Method that uses the
\* variant-name lookup exactly when the list holds value_enum, and what the
\* singular forms convert is the declared type and the value of the directive.
C33_ValueEnumAnywhere ==
    [][TypedDefaultDirective /\ pc' # "aborted" =>
          LET m == item'.methods[Len(item'.methods)] IN
          /\ Len(item'.methods) = Len(item.methods) + 1
          /\ m.args.form \in VariantNameForms <=> ValueEnumAnywhere
          /\ attrs[idx].name \notin PluralDefaults =>
                /\ m.args.form = IF ValueEnumAnywhere THEN "value_enum_get_name"
                                  ELSE IF attrs[idx].name = "default_value_os_t"
                                  THEN "os_string_from" ELSE "to_string"
                /\ m.args.text[1] = site.ty
                /\ attrs[idx].value # None =>
                      m.args.text = <<site.ty>> \o attrs[idx].value.text]_vars

\* C33 witness: a member is finished from default_value_t = e followed by
\* value_enum, and its default_value goes through the variant-name lookup.
C33_Witness ==
    /\ pc = "done"
    /\ attrs = <<Attr("default_value_t", "Arg", AnExpr), Attr("value_enum", "Arg", None)>>
    /\ item.methods = <<Method("default_value",
                               Value("value_enum_get_name", <<site.ty>> \o AnExpr.text))>>

\* The bare about, author and version directives of the site.
BareMetadata ==
    {k \in DOMAIN attrs : attrs[k].name \in DOMAIN MetadataVar /\ attrs[k].value = None}

\* C34: when the build-metadata variable of a bare about, author or version
\* directive is set but empty, the iteration of pass 2 that handles the directive
\* raises no error and registers no Method (the Item stays as it was); the
\* iteration aborts only when the variable is unset. So a site is finished only if
\* the variable of each of its bare metadata directives is set, and a finished
\* Item has no Method of a bare directive whose variable is empty.
C34_EmptyMetadataIsSilent ==
    /\ [][BareMetadataDirective /\ site.env[MetadataVar[attrs[idx].name]] = <<>> =>
             pc' # "aborted" /\ err' = NoErr /\ item' = item]_vars
    /\ [][BareMetadataDirective /\ pc' = "aborted" =>
             /\ site.env[MetadataVar[attrs[idx].name]] = Unset
             /\ err'.type = "cannot_derive_from_cargo_toml"]_vars
    /\ [](pc = "done" =>
             \A k \in BareMetadata :
                LET n == attrs[k].name IN
                /\ site.env[MetadataVar[n]] # Unset
                /\ site.env[MetadataVar[n]] = <<>>
                   /\ (\A j \in DOMAIN attrs : attrs[j].name = n => j \in BareMetadata)
                   => \A i \in DOMAIN item.methods : item.methods[i].name # n)

\* C34 witness: a container whose description variable is empty is finished from
\* a bare about with no Method at all.
C34_Witness ==
    /\ pc = "done"
    /\ site.kind = "args_struct"
    /\ site.env.CARGO_PKG_DESCRIPTION = <<>>
    /\ attrs = <<Attr("about", "Command", None)>>
    /\ item.methods = <<>>
    /\ err = NoErr

====
